---- MODULE Spec2Model ----
(***************************************************************************)
(* A model of lenovo_driver_downloader.py: the bulk download workflow      *)
(* (download_all_drivers with its thread pool and download_file), the      *)
(* specialized-package workflow (download_sccm_packages with its selection *)
(* prompt and sequential downloads) and the command line's index           *)
(* translation in main.                                                    *)
(*                                                                         *)
(* Text (URLs, category labels, prompt input) is a sequence of one-letter  *)
(* strings, so that split, strip, lower, replace and int are computed.     *)
(* The filesystem follows POSIX: a path names an inode, open(.., 'wb')     *)
(* creates the file or truncates the one that is there, and unlink removes *)
(* the name while handles that are open on the inode stay usable.  The     *)
(* handle open(.., 'wb') returns is buffered: a write is kept in its       *)
(* buffer or written out, and the close writes out what the buffer holds.  *)
(***************************************************************************)
EXTENDS Integers, Sequences, FiniteSets, TLC

VARIABLES
    mode,             \* "bulk" | "sccm": args.sccm
    catalog,          \* what get_drivers_list returns in this environment
    categories,       \* args.categories (<<>> stands for None: both are falsy)
    max_workers,      \* self.max_workers
    run,              \* which invocation of the program this is (1..MaxRuns)
    pc,               \* position of the main thread
    exitCode,         \* process exit status once the run has ended (-1: running)
    fetched,          \* the list get_drivers_list returned to download_all_drivers
    drivers,          \* the local variable `drivers` of download_all_drivers
    dirs,             \* directories that exist under (and including) output_dir
    fs,               \* regular files: path -> the chunks the file holds
    manifest,         \* driver_manifest.json: <<>> (no file), <<the 'drivers' field>>
                      \* or PartialManifest
    manifestWrites,   \* writes of driver_manifest.json made by this run
    tasks,            \* download_tasks
    tstate,           \* per submitted future: [pc, linked, off, buf]
    counted,          \* futures as_completed has yielded
    tally,            \* per future: number of counter increments made for it
    success_count,
    skip_count,
    fail_count,
    netCalls,         \* download GET requests issued by this run
    sccm_packages,    \* what get_sccm_packages returns in this environment
    cliIndices,       \* args.sccm_packages (<<>> when the option is absent)
    extract,          \* not args.no_extract
    selected_indices, \* [given |-> FALSE] (None) or [given |-> TRUE, idx |-> list]
    indices,          \* the prompt loop's local list `indices`
    lastInput,        \* the line last read by input()
    linesRead,        \* lines input() has returned in this run
    handled,          \* lines the prompt loop has handled to the end in this run
    rejected,         \* lines the prompt loop has rejected in this run
    selected_packages,
    cursor,           \* position in the flattened file list of selected_packages
    fstep,            \* step of the current specialized-package file download
    handle,           \* the file that download has open: [off, buf]
    downloaded_files, \* the list downloaded_files
    outcomes,         \* per processed specialized-package file: its outcome
    platform,         \* sys.platform: "win32" or another ("unix")
    tools,            \* the extraction tools shutil.which finds
    lookup,           \* the answers of the product lookup endpoints
    listing,          \* the answers of the driver listing endpoints
    rlog,             \* product lookup requests issued by this run, in order
    xdirs,            \* extraction directories: path -> the kinds of entries in it
    xcursor,          \* position of the extraction loop in downloaded_files
    xstep,            \* step of the current archive's extraction
    toolLog,          \* external tool invocations of this run, in order
    xresults,         \* per archive the extraction loop has handled: its result
    xcleaned,         \* archives of this run whose directory the artifact cleanup went over
    xsucceeded        \* directories whose extraction has returned True, in this run or an earlier one

vars == << mode, catalog, categories, max_workers, run, pc, exitCode, fetched,
           drivers, dirs, fs, manifest, manifestWrites, tasks, tstate, counted,
           tally, success_count, skip_count, fail_count, netCalls,
           sccm_packages, cliIndices, extract, selected_indices, indices,
           lastInput, linesRead, handled, rejected, selected_packages, cursor,
           fstep, handle, downloaded_files, outcomes, platform, tools, lookup,
           listing, rlog, xdirs, xcursor, xstep, toolLog, xresults, xcleaned,
           xsucceeded >>

bulkVars == << fetched, drivers, manifestWrites, tasks, tstate, counted, tally,
               success_count, skip_count, fail_count >>

sccmVars == << selected_indices, indices, lastInput, linesRead, handled,
               rejected, selected_packages, cursor, fstep, handle,
               downloaded_files, outcomes >>

inputVars == << mode, catalog, categories, max_workers, sccm_packages,
                cliIndices, extract, platform, tools, lookup, listing >>

extractVars == << xdirs, xcursor, xstep, toolLog, xresults, xcleaned, xsucceeded >>

(***************************************************************************)
(* Bounds of the model.                                                    *)
(***************************************************************************)
MaxTasks == 3        \* file entries in a catalog (download tasks of a run)
MaxRuns == 2         \* invocations of the program on the same output directory
MaxPkgs == 3         \* packages get_sccm_packages returns
MaxInputLen == 3     \* characters of a line typed at the selection prompt
MaxPrompts == 2      \* lines read by the selection prompt in one run
MaxCliArgs == 2      \* numbers given to --sccm-packages
MaxUrlLen == 4       \* characters of a URL after its scheme and host
MaxItems == 2        \* items under one key of a listing answer
Chunks == 2          \* chunks iter_content yields for a response body

DefaultWorkers == 4  \* argparse default of --workers, default of max_workers

(***************************************************************************)
(* Text helpers.                                                           *)
(***************************************************************************)
SeqsUpTo(S, n) == UNION {[1..k -> S] : k \in 0..n}

NonEmptySeqsUpTo(S, n) == UNION {[1..k -> S] : k \in 1..n}

\* the 128 ASCII characters by code; a control character and the grave
\* accent (code 96) are written as the token \xNN
Ascii ==
   << "\\x00", "\\x01", "\\x02", "\\x03", "\\x04", "\\x05", "\\x06", "\\x07",
      "\\x08", "\\x09", "\\x0a", "\\x0b", "\\x0c", "\\x0d", "\\x0e", "\\x0f",
      "\\x10", "\\x11", "\\x12", "\\x13", "\\x14", "\\x15", "\\x16", "\\x17",
      "\\x18", "\\x19", "\\x1a", "\\x1b", "\\x1c", "\\x1d", "\\x1e", "\\x1f",
      " ", "!", "\"", "#", "$", "%", "&", "'",
      "(", ")", "*", "+", ",", "-", ".", "/",
      "0", "1", "2", "3", "4", "5", "6", "7",
      "8", "9", ":", ";", "<", "=", ">", "?",
      "@", "A", "B", "C", "D", "E", "F", "G",
      "H", "I", "J", "K", "L", "M", "N", "O",
      "P", "Q", "R", "S", "T", "U", "V", "W",
      "X", "Y", "Z", "[", "\\", "]", "^", "_",
      "\\x60", "a", "b", "c", "d", "e", "f", "g",
      "h", "i", "j", "k", "l", "m", "n", "o",
      "p", "q", "r", "s", "t", "u", "v", "w",
      "x", "y", "z", "{", "|", "}", "~", "\\x7f" >>

\* chr() of an ASCII code
Chr(v) == Ascii[v + 1]

\* ord() of an ASCII character
Ord == [c \in {Ascii[i] : i \in 1..128} |-> CHOOSE v \in 0..127 : Ascii[v + 1] = c]

\* str.lower() of a character: the letters A-Z (codes 65-90) become a-z
LowerChar(c) ==
    IF c \in {"A", "B", "C", "D", "E", "F", "G", "H", "I", "J", "K", "L", "M",
              "N", "O", "P", "Q", "R", "S", "T", "U", "V", "W", "X", "Y", "Z"}
    THEN Chr(Ord[c] + 32)
    ELSE c

Lower(s) == [i \in 1..Len(s) |-> LowerChar(s[i])]

\* str.replace(old, new) for a one-character old and new
ReplaceChar(s, old, new) == [i \in 1..Len(s) |-> IF s[i] = old THEN new ELSE s[i]]

\* positions of character c in s
Positions(s, c) == {i \in 1..Len(s) : s[i] = c}

MaxOf(S) == CHOOSE x \in S : \A y \in S : y <= x

MinOf(S) == CHOOSE x \in S : \A y \in S : x <= y

\* s.split(c)[-1]: the text after the last c (all of s when c does not occur)
LastPiece(s, c) ==
    IF Positions(s, c) = {} THEN s
    ELSE SubSeq(s, MaxOf(Positions(s, c)) + 1, Len(s))

\* s.split(c)[0]: the text before the first c (all of s when c does not occur)
FirstPiece(s, c) ==
    IF Positions(s, c) = {} THEN s
    ELSE SubSeq(s, 1, MinOf(Positions(s, c)) - 1)

HexDigits == {"0", "1", "2", "3", "4", "5", "6", "7", "8", "9",
              "a", "b", "c", "d", "e", "f", "A", "B", "C", "D", "E", "F"}

HexVal(c) ==
    CASE c = "0" -> 0 [] c = "1" -> 1 [] c = "2" -> 2 [] c = "3" -> 3
      [] c = "4" -> 4 [] c = "5" -> 5 [] c = "6" -> 6 [] c = "7" -> 7
      [] c = "8" -> 8 [] c = "9" -> 9
      [] c \in {"a", "A"} -> 10 [] c \in {"b", "B"} -> 11
      [] c \in {"c", "C"} -> 12 [] c \in {"d", "D"} -> 13
      [] c \in {"e", "E"} -> 14 [] c \in {"f", "F"} -> 15

HexChars == <<"0", "1", "2", "3", "4", "5", "6", "7",
              "8", "9", "a", "b", "c", "d", "e", "f">>

\* the hexadecimal numeral of n with `digits` digits
RECURSIVE HexText(_, _)
HexText(n, digits) ==
    IF digits = 0 THEN ""
    ELSE HexText(n \div 16, digits - 1) \o HexChars[(n % 16) + 1]

\* the character with code point n: an ASCII character as itself, another
\* one as the token \uXXXX or \UXXXXXXXX
CodePoint(n) ==
    IF n < 128 THEN Chr(n)
    ELSE IF n < 65536 THEN "\\u" \o HexText(n, 4)
    ELSE "\\U" \o HexText(n, 8)

\* U+FFFD, which bytes.decode(errors='replace') puts for bytes that are no
\* UTF-8
Replacement == CodePoint(65533)

\* UTF-8: the number of continuation bytes the lead byte l announces (0 for
\* a byte that cannot lead a sequence of several bytes)
Continuations(l) ==
    IF l \in 194..223 THEN 1
    ELSE IF l \in 224..239 THEN 2
    ELSE IF l \in 240..244 THEN 3
    ELSE 0

\* UTF-8: the values the byte after the lead byte l may have
SecondByte(l) ==
    (IF l = 224 THEN 160 ELSE IF l = 240 THEN 144 ELSE 128) ..
    (IF l = 237 THEN 159 ELSE IF l = 244 THEN 143 ELSE 191)

\* the number of bytes after position i of b that continue the sequence its
\* byte leads, at most Continuations(b[i])
Continued(b, i) ==
    LET need == Continuations(b[i])
        ok1 == need >= 1 /\ i + 1 <= Len(b) /\ b[i + 1] \in SecondByte(b[i])
        ok2 == ok1 /\ need >= 2 /\ i + 2 <= Len(b) /\ b[i + 2] \in 128..191
        ok3 == ok2 /\ need >= 3 /\ i + 3 <= Len(b) /\ b[i + 3] \in 128..191
    IN IF ok3 THEN 3 ELSE IF ok2 THEN 2 ELSE IF ok1 THEN 1 ELSE 0

\* the code point of the complete sequence at position i of b
Scalar(b, i) ==
    LET need == Continuations(b[i])
    IN IF need = 1 THEN (b[i] - 192) * 64 + (b[i + 1] - 128)
       ELSE IF need = 2
       THEN (b[i] - 224) * 4096 + (b[i + 1] - 128) * 64 + (b[i + 2] - 128)
       ELSE (b[i] - 240) * 262144 + (b[i + 1] - 128) * 4096
            + (b[i + 2] - 128) * 64 + (b[i + 3] - 128)

\* bytes.decode('utf-8', errors='replace') from position i of b: a byte
\* below 128 is its character, a complete sequence its character, and a lead
\* byte with the continuation bytes that do follow it, or a byte that cannot
\* lead, one replacement character
RECURSIVE DecodeFrom(_, _)
DecodeFrom(b, i) ==
    IF i > Len(b) THEN <<>>
    ELSE IF b[i] < 128 THEN <<Chr(b[i])>> \o DecodeFrom(b, i + 1)
    ELSE IF Continuations(b[i]) = 0 THEN <<Replacement>> \o DecodeFrom(b, i + 1)
    ELSE IF Continued(b, i) = Continuations(b[i])
    THEN <<CodePoint(Scalar(b, i))>> \o DecodeFrom(b, i + Continuations(b[i]) + 1)
    ELSE <<Replacement>> \o DecodeFrom(b, i + Continued(b, i) + 1)

\* urllib.parse.unquote_to_bytes on ASCII text: %XX with two hex digits is
\* the byte XX, any other character (a % without two hex digits too) its code
RECURSIVE UnquoteToBytes(_)
UnquoteToBytes(s) ==
    IF s = <<>> THEN <<>>
    ELSE IF Len(s) >= 3 /\ s[1] = "%" /\ s[2] \in HexDigits /\ s[3] \in HexDigits
         THEN <<16 * HexVal(s[2]) + HexVal(s[3])>> \o UnquoteToBytes(SubSeq(s, 4, Len(s)))
         ELSE <<Ord[s[1]]>> \o UnquoteToBytes(Tail(s))

\* urllib.parse.unquote on ASCII text: the bytes of the text, decoded as UTF-8
\* with replacement
Unquote(s) == DecodeFrom(UnquoteToBytes(s), 1)

\* download_file: filename = unquote(url.split('/')[-1].split('?')[0])
FileName(url) == Unquote(FirstPiece(LastPiece(url, "/"), "?"))

(***************************************************************************)
(* The catalog: driver records and their file entries.                     *)
(***************************************************************************)
\* a catalog may list the same URL in several file entries
URLs == { <<"h", "/", "a", "?", "s">>, <<"h", "/", "b">> }

Categories == { <<"A">>, <<"a", "/", "b">> }

Filters == { <<>>, << <<"a">> >>, << <<"A", "/", "B">>, <<"z">> >> }

FileInfos == [url : URLs]

\* a driver record with k file entries: get_drivers_list returns no record
\* without a file entry
DriverRecords(k) == [category : Categories, files : [1..k -> FileInfos]]

\* the driver lists with at most n file entries in all
RECURSIVE CatalogsUpTo(_)
CatalogsUpTo(n) ==
    { <<>> } \cup
    UNION { { << r >> \o c : r \in DriverRecords(k), c \in CatalogsUpTo(n - k) } :
            k \in 1..n }

Catalogs == CatalogsUpTo(MaxTasks)

OutDir == <<".">>

\* category = driver['category'].replace('/', '-').replace('\\', '-')
CategoryDir(category) == ReplaceChar(ReplaceChar(category, "/", "-"), "\\", "-")

\* filepath = category_dir / filename
PathOf(dir, url) == [dir |-> dir, name |-> FileName(url)]

\* Path.exists(); dir / '' is the directory itself, which lines 271 and 596
\* have made
Exists(p) == p.name = <<>> \/ p \in DOMAIN fs

\* what a file holds, in pieces of one chunk (chunk_size=8192): k stands for
\* chunk k of a response body, 0 for a chunk-sized hole of NUL bytes
Body == [k \in 1..Chunks |-> k]

\* the file at p holds a whole response body and nothing else
Complete(p) == fs[p] = Body

\* the filesystem after open(p, 'wb'): the file is there and empty, whether
\* the call created it or truncated the one that was there
Opened(p) == [q \in DOMAIN fs \cup {p} |-> IF q = p THEN <<>> ELSE fs[q]]

\* a file after the chunks from..to of a body were written at their offsets
\* through a handle; writing beyond the end of the file leaves a hole
WriteRange(content, from, to) ==
    [i \in 1..MaxOf({Len(content), to}) |->
        IF i \in from..to THEN i
        ELSE IF i <= Len(content) THEN content[i] ELSE 0]

\* the filesystem after f.write of the chunks from..to to the file at p
Written(p, from, to) ==
    [q \in DOMAIN fs |-> IF q = p THEN WriteRange(fs[q], from, to) ELSE fs[q]]

\* the filesystem after Path.unlink() of p
Unlinked(p) == [q \in DOMAIN fs \ {p} |-> fs[q]]

\* how many of the chunks a buffered handle has taken are in its buffer after
\* f.write of n more, when it held buf: all of them (the new ones fitted in),
\* the new ones alone (the buffer was written out first, the new ones fit an
\* empty buffer), none (the new ones, larger than the buffer, were written
\* out behind it); which it is depends on the buffer size of the platform and
\* on the lengths of the chunks
KeptAfterWrite(buf, n) == {0, n, buf + n}

\* the filesystem after a handle on the file at p has written out the chunks
\* from..to at their offsets; a handle whose path was unlinked writes to a
\* file no path names
Flushed(p, linked, from, to) ==
    IF linked /\ from <= to THEN Written(p, from, to) ELSE fs

\* a handle that has taken nothing yet
FreshHandle == [off |-> 0, buf |-> 0]

(***************************************************************************)
(* download_all_drivers, main thread.                                      *)
(***************************************************************************)
\* a category filter that compares the labels as they are written
FilterCaseSensitive(ds, cats) ==
    IF cats = <<>> THEN ds
    ELSE SelectSeq(ds, LAMBDA d : \E i \in 1..Len(cats) : d.category = cats[i])

\* lines 246-248: the category filter
FilterByCategory(ds, cats) ==
    IF cats = <<>> THEN ds
    ELSE SelectSeq(ds, LAMBDA d :
            \E i \in 1..Len(cats) : Lower(d.category) = Lower(cats[i]))

\* what line 261 puts in the manifest's 'drivers' field: the local variable
\* `drivers`, which line 248 has rebound to the filtered list
ManifestDrivers(fetchedList, filteredList) == filteredList

\* a manifest the dump of lines 256-263 has not finished: line 256 has made
\* the file or emptied the one that was there, and it holds the beginning of
\* the document at most, without a 'drivers' field that can be read
PartialManifest == << "partial" >>

\* lines 267-274: one task per file entry, in catalog order
RECURSIVE BuildTasks(_)
BuildTasks(ds) ==
    IF ds = <<>> THEN <<>>
    ELSE [i \in 1..Len(Head(ds).files) |->
            [url |-> Head(ds).files[i].url, dir |-> CategoryDir(Head(ds).category)]]
         \o BuildTasks(Tail(ds))

TaskIds == DOMAIN tasks

TaskPath(t) == PathOf(tasks[t].dir, tasks[t].url)

Terminal == {"completed", "skipped", "failed", "raised"}

Executing == {"taken", "get", "await", "write", "cleanup", "unlink"}

Running == {t \in DOMAIN tstate : tstate[t].pc \in Executing}

\* line 239: drivers = self.get_drivers_list(); lines 241-243: nothing to do
Resolve ==
    /\ mode = "bulk"
    /\ pc = "start"
    /\ fetched' = catalog
    /\ drivers' = catalog
    /\ IF catalog = <<>>
       THEN pc' = "done" /\ exitCode' = 0
       ELSE pc' = "resolved" /\ UNCHANGED exitCode
    /\ UNCHANGED << inputVars, rlog, extractVars, run, dirs, fs, manifest, manifestWrites, tasks,
                    tstate, counted, tally, success_count, skip_count,
                    fail_count, netCalls, sccmVars >>

\* lines 245-264: filter, create the output directory, write the manifest
SaveManifest ==
    /\ pc = "resolved"
    /\ drivers' = FilterByCategory(drivers, categories)
    /\ dirs' = dirs \cup {OutDir}
    /\ manifest' = << ManifestDrivers(fetched, drivers') >>
    /\ manifestWrites' = manifestWrites + 1
    /\ pc' = "manifest"
    /\ UNCHANGED << inputVars, rlog, extractVars, run, exitCode, fetched, fs, tasks, tstate,
                    counted, tally, success_count, skip_count, fail_count,
                    netCalls, sccmVars >>

\* lines 266-281: category directories, the task list, the counters
PrepareTasks ==
    /\ pc = "manifest"
    /\ tasks' = BuildTasks(drivers)
    /\ dirs' = dirs \cup {CategoryDir(drivers[i].category) : i \in 1..Len(drivers)}
    /\ success_count' = 0
    /\ fail_count' = 0
    /\ skip_count' = 0
    /\ pc' = "tasks"
    /\ UNCHANGED << inputVars, rlog, extractVars, run, exitCode, fetched, drivers, fs, manifest,
                    manifestWrites, tstate, counted, tally, netCalls, sccmVars >>

\* ThreadPoolExecutor(max_workers=n) raises ValueError unless n > 0
PoolAccepts(n) == n > 0

\* a call that executor.submit has just put on the pool's queue
Queued == [pc |-> "queued", linked |-> FALSE, off |-> 0, buf |-> 0]

\* lines 283-288: the pool is created, then the comprehension submits one
\* task per step, while the workers already run the calls submitted so far;
\* a ValueError of the constructor reaches main's handler (lines 759-761)
Submit ==
    /\ pc = "tasks"
    /\ IF ~PoolAccepts(max_workers)
       THEN /\ pc' = "exit"
            /\ exitCode' = 1
            /\ UNCHANGED << tstate, tally >>
       ELSE /\ UNCHANGED exitCode
            /\ IF Len(tstate) < Len(tasks)
               THEN /\ tstate' = Append(tstate, Queued)
                    /\ tally' = Append(tally, 0)
               ELSE UNCHANGED << tstate, tally >>
            /\ pc' = IF Len(tstate') = Len(tasks) THEN "transfer" ELSE "tasks"
    /\ UNCHANGED << inputVars, rlog, extractVars, run, fetched, drivers, dirs, fs, manifest,
                    manifestWrites, tasks, counted, success_count, skip_count,
                    fail_count, netCalls, sccmVars >>

(***************************************************************************)
(* The worker pool: download_file run by ThreadPoolExecutor's workers.     *)
(***************************************************************************)
\* the workers run while the main thread is in the executor's with-block:
\* in the submission loop, in the as_completed loop, or in the block's exit
\* after an interrupt
PoolActive == pc \in {"tasks", "transfer", "interrupted"}

\* a pool that starts every submitted call at once
WorkerAlwaysFree == TRUE

\* line 284: a worker thread is free to take the next queued call
WorkerFree == Cardinality(Running) < max_workers

\* lines 205-207: an existing destination is skipped
SkipsExisting(p) == Exists(p)

\* the pool's queue is FIFO: a call is taken after every call submitted before it
NextInQueue(t) == \A u \in DOMAIN tstate : u < t => tstate[u].pc # "queued"

\* line 286: a worker takes the call off the queue and enters download_file
TakeCall(t) ==
    /\ PoolActive
    /\ t \in DOMAIN tstate
    /\ tstate[t].pc = "queued"
    /\ NextInQueue(t)
    /\ WorkerFree
    /\ tstate' = [tstate EXCEPT ![t].pc = "taken"]
    /\ UNCHANGED << inputVars, rlog, extractVars, run, pc, exitCode, fetched, drivers, dirs, fs,
                    manifest, manifestWrites, tasks, counted, tally,
                    success_count, skip_count, fail_count, netCalls, sccmVars >>

\* lines 198-207: the call derives its path and checks it
StartTask(t) ==
    /\ PoolActive
    /\ t \in DOMAIN tstate
    /\ tstate[t].pc = "taken"
    /\ tstate' = [tstate EXCEPT ![t].pc =
                     IF SkipsExisting(TaskPath(t)) THEN "skipped" ELSE "get"]
    /\ UNCHANGED << inputVars, rlog, extractVars, run, pc, exitCode, fetched, drivers, dirs, fs,
                    manifest, manifestWrites, tasks, counted, tally,
                    success_count, skip_count, fail_count, netCalls, sccmVars >>

\* line 211: session.get issues the request and waits for the response
GetSent(t) ==
    /\ PoolActive
    /\ t \in DOMAIN tstate
    /\ tstate[t].pc = "get"
    /\ netCalls' = netCalls + 1
    /\ tstate' = [tstate EXCEPT ![t].pc = "await"]
    /\ UNCHANGED << inputVars, rlog, extractVars, run, pc, exitCode, fetched, drivers, dirs, fs,
                    manifest, manifestWrites, tasks, counted, tally,
                    success_count, skip_count, fail_count, sccmVars >>

\* lines 211-212: the GET fails (transport error, timeout, non-2xx status)
GetFail(t) ==
    /\ PoolActive
    /\ t \in DOMAIN tstate
    /\ tstate[t].pc = "await"
    /\ tstate' = [tstate EXCEPT ![t].pc = "cleanup"]
    /\ UNCHANGED << inputVars, rlog, extractVars, run, pc, exitCode, fetched, drivers, dirs, fs,
                    manifest, manifestWrites, tasks, counted, tally,
                    success_count, skip_count, fail_count, netCalls, sccmVars >>

\* lines 211-216: the response has come and the destination is opened for
\* writing
GetOpen(t) ==
    /\ PoolActive
    /\ t \in DOMAIN tstate
    /\ tstate[t].pc = "await"
    /\ fs' = Opened(TaskPath(t))
    /\ tstate' = [tstate EXCEPT ![t] = [pc |-> "write", linked |-> TRUE, off |-> 0, buf |-> 0]]
    /\ UNCHANGED << inputVars, rlog, extractVars, run, pc, exitCode, fetched, drivers, dirs,
                    manifest, manifestWrites, tasks, counted, tally,
                    success_count, skip_count, fail_count, netCalls, sccmVars >>

\* lines 218-220: the response yields a chunk and f.write takes it at the
\* handle's offset: it stays in the buffer, or it is written out with what
\* the buffer held
WriteChunk(t) ==
    /\ PoolActive
    /\ t \in DOMAIN tstate
    /\ tstate[t].pc = "write"
    /\ tstate[t].off < Chunks
    /\ \E keep \in KeptAfterWrite(tstate[t].buf, 1) :
          /\ fs' = Flushed(TaskPath(t), tstate[t].linked,
                           tstate[t].off - tstate[t].buf + 1,
                           tstate[t].off + 1 - keep)
          /\ tstate' = [tstate EXCEPT ![t].off = @ + 1, ![t].buf = keep]
    /\ UNCHANGED << inputVars, rlog, extractVars, run, pc, exitCode, fetched, drivers, dirs,
                    manifest, manifestWrites, tasks, counted, tally,
                    success_count, skip_count, fail_count, netCalls, sccmVars >>

\* line 219, when the chunk does not fit beside what the handle's buffer
\* holds: f.write first writes out the buffer, in a system call of its own,
\* and takes the chunk after it (the next step); another thread can run
\* between the two, and the second call can fail
WriteOutBuffer(t) ==
    /\ PoolActive
    /\ t \in DOMAIN tstate
    /\ tstate[t].pc = "write"
    /\ tstate[t].off < Chunks
    /\ tstate[t].buf > 0
    /\ fs' = Flushed(TaskPath(t), tstate[t].linked,
                     tstate[t].off - tstate[t].buf + 1, tstate[t].off)
    /\ tstate' = [tstate EXCEPT ![t].buf = 0]
    /\ UNCHANGED << inputVars, rlog, extractVars, run, pc, exitCode, fetched, drivers, dirs,
                    manifest, manifestWrites, tasks, counted, tally,
                    success_count, skip_count, fail_count, netCalls, sccmVars >>

\* line 222: a response without content-length (or with one of 0) is read
\* whole and handed to f.write in one call
WriteBody(t) ==
    /\ PoolActive
    /\ t \in DOMAIN tstate
    /\ tstate[t].pc = "write"
    /\ tstate[t].off = 0
    /\ \E keep \in KeptAfterWrite(tstate[t].buf, Chunks) :
          /\ fs' = Flushed(TaskPath(t), tstate[t].linked, 1, Chunks - keep)
          /\ tstate' = [tstate EXCEPT ![t].off = Chunks, ![t].buf = keep]
    /\ UNCHANGED << inputVars, rlog, extractVars, run, pc, exitCode, fetched, drivers, dirs,
                    manifest, manifestWrites, tasks, counted, tally,
                    success_count, skip_count, fail_count, netCalls, sccmVars >>

\* the filesystem after the with-block of line 216 is left: the close writes
\* out what the handle's buffer holds, at the handle's offset
Closed(t) ==
    Flushed(TaskPath(t), tstate[t].linked,
            tstate[t].off - tstate[t].buf + 1, tstate[t].off)

\* lines 217-224: the body is at its end (line 218 reads the end of the
\* stream, or line 222 has written the body), the file is closed, success
\* returned
WriteDone(t) ==
    /\ PoolActive
    /\ t \in DOMAIN tstate
    /\ tstate[t].pc = "write"
    /\ tstate[t].off = Chunks
    /\ fs' = Closed(t)
    /\ tstate' = [tstate EXCEPT ![t] = [pc |-> "completed", linked |-> FALSE, off |-> 0, buf |-> 0]]
    /\ UNCHANGED << inputVars, rlog, extractVars, run, pc, exitCode, fetched, drivers, dirs,
                    manifest, manifestWrites, tasks, counted, tally,
                    success_count, skip_count, fail_count, netCalls, sccmVars >>

\* lines 217-226: reading the body or writing a chunk raises; the with-block
\* closes the file, which writes out the buffer, before the handler of line
\* 226 runs
WriteFail(t) ==
    /\ PoolActive
    /\ t \in DOMAIN tstate
    /\ tstate[t].pc = "write"
    /\ fs' = Closed(t)
    /\ tstate' = [tstate EXCEPT ![t] = [pc |-> "cleanup", linked |-> FALSE, off |-> 0, buf |-> 0]]
    /\ UNCHANGED << inputVars, rlog, extractVars, run, pc, exitCode, fetched, drivers, dirs,
                    manifest, manifestWrites, tasks, counted, tally,
                    success_count, skip_count, fail_count, netCalls, sccmVars >>

\* line 228: the handler removes the destination only if it is there
CleansUp(p) == Exists(p)

\* lines 226-230, first half: if filepath.exists()
CleanupCheck(t) ==
    /\ PoolActive
    /\ t \in DOMAIN tstate
    /\ tstate[t].pc = "cleanup"
    /\ tstate' = [tstate EXCEPT ![t].pc =
                     IF CleansUp(TaskPath(t)) THEN "unlink" ELSE "failed"]
    /\ UNCHANGED << inputVars, rlog, extractVars, run, pc, exitCode, fetched, drivers, dirs, fs,
                    manifest, manifestWrites, tasks, counted, tally,
                    success_count, skip_count, fail_count, netCalls, sccmVars >>

\* lines 229-230: filepath.unlink(); it raises FileNotFoundError out of
\* download_file when another call removed the path since the check
UnlinkStep(t) ==
    /\ PoolActive
    /\ t \in DOMAIN tstate
    /\ tstate[t].pc = "unlink"
    /\ IF Exists(TaskPath(t))
       THEN /\ fs' = Unlinked(TaskPath(t))
            /\ tstate' = [u \in DOMAIN tstate |->
                  IF u = t THEN [pc |-> "failed", linked |-> FALSE, off |-> 0, buf |-> 0]
                  ELSE IF TaskPath(u) = TaskPath(t)
                       THEN [tstate[u] EXCEPT !.linked = FALSE]
                       ELSE tstate[u]]
       ELSE /\ tstate' = [tstate EXCEPT ![t].pc = "raised"]
            /\ UNCHANGED fs
    /\ UNCHANGED << inputVars, rlog, extractVars, run, pc, exitCode, fetched, drivers, dirs,
                    manifest, manifestWrites, tasks, counted, tally,
                    success_count, skip_count, fail_count, netCalls, sccmVars >>

(***************************************************************************)
(* The aggregator: the as_completed loop and the summary.                  *)
(***************************************************************************)
\* an aggregator whose except branch does not count the future
CountOutcomeDropsRaised(outcome, c) ==
    CASE outcome = "completed" -> [c EXCEPT !.success = @ + 1]
      [] outcome = "skipped" -> [c EXCEPT !.skip = @ + 1]
      [] outcome = "failed" -> [c EXCEPT !.fail = @ + 1]
      [] outcome = "raised" -> c

\* lines 292-304: the counters after one future's result
CountOutcome(outcome, c) ==
    CASE outcome = "completed" -> [c EXCEPT !.success = @ + 1]
      [] outcome = "skipped" -> [c EXCEPT !.skip = @ + 1]
      [] outcome = "failed" -> [c EXCEPT !.fail = @ + 1]
      [] outcome = "raised" -> [c EXCEPT !.fail = @ + 1]

Counters == [success |-> success_count, skip |-> skip_count, fail |-> fail_count]

CounterSum(c) == c.success + c.skip + c.fail

\* lines 290-306: as_completed yields a finished future, once
Collect(t) ==
    /\ pc = "transfer"
    /\ t \in DOMAIN tstate
    /\ t \notin counted
    /\ tstate[t].pc \in Terminal
    /\ counted' = counted \cup {t}
    /\ LET c == CountOutcome(tstate[t].pc, Counters)
       IN /\ success_count' = c.success
          /\ skip_count' = c.skip
          /\ fail_count' = c.fail
          /\ tally' = [tally EXCEPT ![t] = @ + CounterSum(c) - CounterSum(Counters)]
    /\ UNCHANGED << inputVars, rlog, extractVars, run, pc, exitCode, fetched, drivers, dirs, fs,
                    manifest, manifestWrites, tasks, tstate, netCalls, sccmVars >>

\* a loop that stops at the first future it has handled
LoopFinishedEarly == counted # {} \/ DOMAIN tasks = {}

\* line 290: the loop ends when as_completed has yielded every future
LoopFinished == counted = TaskIds

\* lines 308-313: the summary is printed and download_all_drivers returns
Summary ==
    /\ pc = "transfer"
    /\ LoopFinished
    /\ pc' = "done"
    /\ exitCode' = 0
    /\ UNCHANGED << inputVars, rlog, extractVars, run, fetched, drivers, dirs, fs, manifest,
                    manifestWrites, tasks, tstate, counted, tally,
                    success_count, skip_count, fail_count, netCalls, sccmVars >>

(***************************************************************************)
(* The specialized-package workflow: main's index translation, the         *)
(* selection prompt, the selection and the sequential downloads of         *)
(* download_sccm_packages.                                                 *)
(***************************************************************************)
\* str.strip(), for the blank the model's lines can hold
RECURSIVE StripLeft(_)
StripLeft(s) == IF s # <<>> /\ Head(s) = " " THEN StripLeft(Tail(s)) ELSE s

RECURSIVE StripRight(_)
StripRight(s) ==
    IF s # <<>> /\ s[Len(s)] = " " THEN StripRight(SubSeq(s, 1, Len(s) - 1)) ELSE s

Strip(s) == StripRight(StripLeft(s))

\* s.split(c): the pieces between the occurrences of c, empty pieces included
RECURSIVE Split(_, _)
Split(s, c) ==
    IF Positions(s, c) = {} THEN << s >>
    ELSE << FirstPiece(s, c) >> \o Split(SubSeq(s, MinOf(Positions(s, c)) + 1, Len(s)), c)

Digits == {"0", "1", "2", "3", "4", "5", "6", "7", "8", "9"}

\* the digits of a numeral, without its sign
Unsigned(tok) == IF tok # <<>> /\ Head(tok) \in {"-", "+"} THEN Tail(tok) ELSE tok

\* int(tok) does not raise ValueError: an optional sign and decimal digits
\* (the lines of the model hold no underscore and no blank inside a piece that
\* int would accept)
IsInt(tok) ==
    /\ Unsigned(tok) # <<>>
    /\ \A i \in 1..Len(Unsigned(tok)) : Unsigned(tok)[i] \in Digits

RECURSIVE DigitsValue(_)
DigitsValue(ds) ==
    IF ds = <<>> THEN 0
    ELSE 10 * DigitsValue(SubSeq(ds, 1, Len(ds) - 1)) + HexVal(ds[Len(ds)])

\* int(tok)
IntOf(tok) ==
    IF Head(tok) = "-" THEN 0 - DigitsValue(Unsigned(tok)) ELSE DigitsValue(Unsigned(tok))

\* line 564: the range test on a typed number
InRange(num, n) == 1 <= num /\ num <= n

\* lines 560-568: the loop over selection.split(','); raised: ValueError left
\* the loop (int() failed, or the number is out of range)
RECURSIVE ParseTokens(_, _, _)
ParseTokens(toks, n, acc) ==
    IF toks = <<>> THEN [raised |-> FALSE, indices |-> acc]
    ELSE LET tok == Strip(Head(toks))
         IN IF tok = <<>> THEN ParseTokens(Tail(toks), n, acc)
            ELSE IF ~IsInt(tok) THEN [raised |-> TRUE, indices |-> acc]
            ELSE IF InRange(IntOf(tok), n)
                 THEN ParseTokens(Tail(toks), n, Append(acc, IntOf(tok) - 1))
                 ELSE [raised |-> TRUE, indices |-> acc]

\* sorted(set(xs))
RECURSIVE SortSet(_)
SortSet(S) == IF S = {} THEN <<>> ELSE << MinOf(S) >> \o SortSet(S \ {MinOf(S)})

SortedSet(xs) == SortSet({xs[i] : i \in 1..Len(xs)})

\* a prompt loop that keeps the list of the iteration before
LoopIndicesKept(prev) == prev

\* line 559: indices = [] at the start of every parse
LoopIndices(prev) == <<>>

KeywordNone == <<"n", "o", "n", "e">>

KeywordAll == <<"a", "l", "l">>

\* list(range(n))
Range(n) == [i \in 1..n |-> i - 1]

\* what the user can type: short lines of digits, commas, blanks, a sign and a
\* letter, and the two keywords in some spellings
LineChars == {"0", "1", "3", ",", " ", "-", "x"}

PromptLines ==
    SeqsUpTo(LineChars, MaxInputLen)
        \cup { KeywordNone, KeywordAll, <<"A", "L", "L">>, <<" ", "N", "o", "n", "e">> }

\* the packages get_sccm_packages returns: each with one or two .exe files
ExeP == <<"h", "/", "p", ".", "e", "x", "e">>

ExeQ == <<"h", "/", "q", ".", "e", "x", "e">>

Packages == { [files |-> << [url |-> ExeP] >>],
              [files |-> << [url |-> ExeP], [url |-> ExeQ] >>] }

PackageLists == SeqsUpTo(Packages, MaxPkgs)

\* the numbers --sccm-packages can carry (nargs='+': at least one)
CliIndexLists == NonEmptySeqsUpTo(-1..(MaxPkgs + 1), MaxCliArgs)

SccmDir == <<"S", "C", "C", "M">>

\* Python's list[i]: i counts from the end when negative
PyIndexOk(xs, i) == 0 - Len(xs) <= i /\ i < Len(xs)

PyIndex(xs, i) == IF i >= 0 THEN xs[i + 1] ELSE xs[Len(xs) + i + 1]

\* main, lines 750-755, and download_sccm_packages, lines 525-541
SccmStart ==
    /\ mode = "sccm"
    /\ pc = "start"
    /\ selected_indices' =
          IF cliIndices # <<>>
          THEN [given |-> TRUE, idx |-> [k \in 1..Len(cliIndices) |-> cliIndices[k] - 1]]
          ELSE [given |-> FALSE, idx |-> <<>>]
    /\ IF sccm_packages = <<>>
       THEN pc' = "done" /\ exitCode' = 0
       ELSE /\ pc' = IF cliIndices # <<>> THEN "select" ELSE "prompt"
            /\ UNCHANGED exitCode
    /\ UNCHANGED << inputVars, rlog, extractVars, run, dirs, fs, manifest, netCalls,
                    bulkVars, indices, lastInput, linesRead, handled, rejected,
                    selected_packages, cursor, fstep, handle, downloaded_files, outcomes >>

\* a prompt loop without the cancel keyword
CancelsNever(selection) == FALSE

\* lines 551-553: the line 'none' cancels
Cancels(selection) == selection = KeywordNone

\* lines 547-577: one iteration of the prompt loop on the line the user
\* typed, handled to its end
Prompt(line) ==
    /\ mode = "sccm"
    /\ pc = "prompt"
    /\ linesRead < MaxPrompts
    /\ lastInput' = line
    /\ linesRead' = linesRead + 1
    /\ handled' = handled + 1
    /\ LET selection == Lower(Strip(line))
           n == Len(sccm_packages)
           parsed == ParseTokens(Split(selection, ","), n, LoopIndices(indices))
       IN IF Cancels(selection)
          THEN /\ pc' = "done"
               /\ exitCode' = 0
               /\ UNCHANGED << selected_indices, indices, rejected >>
          ELSE IF selection = KeywordAll \/ selection = <<>>
          THEN /\ selected_indices' = [given |-> TRUE, idx |-> Range(n)]
               /\ pc' = "select"
               /\ UNCHANGED << exitCode, indices, rejected >>
          ELSE /\ indices' = parsed.indices
               /\ IF ~parsed.raised /\ parsed.indices # <<>>
                  THEN /\ selected_indices' =
                             [given |-> TRUE, idx |-> SortedSet(parsed.indices)]
                       /\ pc' = "select"
                       /\ UNCHANGED rejected
                  ELSE /\ rejected' = rejected + 1
                       /\ UNCHANGED << selected_indices, pc >>
               /\ UNCHANGED exitCode
    /\ UNCHANGED << inputVars, rlog, extractVars, run, dirs, fs, manifest, netCalls,
                    bulkVars, selected_packages, cursor, fstep, handle,
                    downloaded_files, outcomes >>

\* the beginnings of a list
Prefixes(xs) == {SubSeq(xs, 1, k) : k \in 0..Len(xs)}

\* what `indices` can hold when lines 550-574 are left in the middle of their
\* work on a line: the list of the iteration before (line 559 is not
\* reached), or what the loop of lines 560-568 has appended so far
IndicesWhenCut(line) ==
    LET selection == Lower(Strip(line))
        parsed == ParseTokens(Split(selection, ","), Len(sccm_packages),
                              LoopIndices(indices))
    IN IF Cancels(selection) \/ selection = KeywordAll \/ selection = <<>>
       THEN {indices}
       ELSE {indices} \cup Prefixes(parsed.indices)

\* lines 578-580: Ctrl-C anywhere in the try of lines 548-574 cancels with
\* status 0: while input() waits for a line, or after input() has returned
\* one and before lines 550-574 are through with it. Then the line is not
\* handled to its end: it is neither accepted nor counted as rejected, and a
\* selected_indices that line 555 or 572 has bound goes with the return
PromptInterrupt ==
    /\ mode = "sccm"
    /\ pc = "prompt"
    /\ pc' = "done"
    /\ exitCode' = 0
    /\ \/ UNCHANGED << lastInput, linesRead, indices >>
       \/ /\ linesRead < MaxPrompts
          /\ \E line \in PromptLines :
                /\ lastInput' = line
                /\ linesRead' = linesRead + 1
                /\ indices' \in IndicesWhenCut(line)
    /\ UNCHANGED << inputVars, rlog, extractVars, run, dirs, fs, manifest, netCalls,
                    bulkVars, selected_indices, handled, rejected,
                    selected_packages, cursor, fstep, handle, downloaded_files,
                    outcomes >>

\* line 549: at end of file input() raises EOFError, which the handlers of
\* lines 576-580 do not catch; main's `except Exception` (lines 765-767)
\* ends the process with status 1
PromptEof ==
    /\ mode = "sccm"
    /\ pc = "prompt"
    /\ pc' = "exit"
    /\ exitCode' = 1
    /\ UNCHANGED << inputVars, rlog, extractVars, run, dirs, fs, manifest, netCalls,
                    bulkVars, sccmVars >>

\* Ctrl-C at the prompt outside the try of lines 548-580 (in the prints of
\* lines 542-545, in the handler of line 577, between two iterations of the
\* loop) is not caught at line 578: main's handler (lines 762-764) ends the
\* process with status 1
PromptEscape ==
    /\ mode = "sccm"
    /\ pc = "prompt"
    /\ pc' = "exit"
    /\ exitCode' = 1
    /\ UNCHANGED << inputVars, rlog, extractVars, run, dirs, fs, manifest, netCalls,
                    bulkVars, sccmVars >>

\* lines 600-605: the files of the selected packages, in order
RECURSIVE FilesOf(_)
FilesOf(pkgs) == IF pkgs = <<>> THEN <<>> ELSE Head(pkgs).files \o FilesOf(Tail(pkgs))

\* line 605: filepath = sccm_dir / filename
SccmPath(k) == PathOf(SccmDir, FilesOf(selected_packages)[k].url)

\* lines 583-587: every selected index resolves and the selection is not
\* empty, so the function goes on to the directories of lines 594-596
SelectionGoesOn ==
    /\ \A k \in 1..Len(selected_indices.idx) :
          PyIndexOk(sccm_packages, selected_indices.idx[k])
    /\ selected_indices.idx # <<>>

\* lines 582-597: the selected packages; an index Python cannot resolve raises
\* IndexError, which main's handler turns into exit status 1 (lines 765-767)
Select ==
    /\ mode = "sccm"
    /\ pc = "select"
    /\ IF \E k \in 1..Len(selected_indices.idx) :
             ~PyIndexOk(sccm_packages, selected_indices.idx[k])
       THEN /\ pc' = "exit"
            /\ exitCode' = 1
            /\ UNCHANGED << selected_packages, dirs, cursor, fstep >>
       ELSE /\ selected_packages' =
                  [k \in 1..Len(selected_indices.idx) |->
                      PyIndex(sccm_packages, selected_indices.idx[k])]
            /\ IF selected_indices.idx = <<>>
               THEN /\ pc' = "done"
                    /\ exitCode' = 0
                    /\ UNCHANGED << dirs, cursor, fstep >>
               ELSE /\ dirs' = dirs \cup {OutDir, SccmDir}
                    /\ cursor' = 1
                    /\ fstep' = "check"
                    /\ pc' = "download"
                    /\ UNCHANGED exitCode
    /\ UNCHANGED << inputVars, rlog, extractVars, run, fs, manifest, netCalls, bulkVars,
                    selected_indices, indices, lastInput, linesRead, handled, rejected,
                    handle, downloaded_files, outcomes >>

MoreFiles == cursor <= Len(FilesOf(selected_packages))

\* lines 603-612: the next file; an existing one is kept and not fetched
SccmCheck ==
    /\ pc = "download"
    /\ fstep = "check"
    /\ MoreFiles
    /\ IF Exists(SccmPath(cursor))
       THEN /\ downloaded_files' = Append(downloaded_files, SccmPath(cursor))
            /\ outcomes' = Append(outcomes, "skipped")
            /\ cursor' = cursor + 1
            /\ UNCHANGED fstep
       ELSE /\ fstep' = "get"
            /\ UNCHANGED << downloaded_files, outcomes, cursor >>
    /\ UNCHANGED << inputVars, rlog, extractVars, run, pc, exitCode, dirs, fs, manifest,
                    netCalls, bulkVars, selected_indices, indices, lastInput,
                    linesRead, handled, rejected, selected_packages, handle >>

\* line 615: session.get issues the request and waits for the response
SccmGetSent ==
    /\ pc = "download"
    /\ fstep = "get"
    /\ netCalls' = netCalls + 1
    /\ fstep' = "await"
    /\ UNCHANGED << inputVars, rlog, extractVars, run, pc, exitCode, dirs, fs, manifest,
                    bulkVars, selected_indices, indices, lastInput, linesRead,
                    handled, rejected, selected_packages, cursor, handle,
                    downloaded_files, outcomes >>

\* lines 615-616: the GET fails
SccmGetFail ==
    /\ pc = "download"
    /\ fstep = "await"
    /\ fstep' = "cleanup"
    /\ UNCHANGED << inputVars, rlog, extractVars, run, pc, exitCode, dirs, fs, manifest,
                    netCalls, bulkVars, selected_indices, indices, lastInput,
                    linesRead, handled, rejected, selected_packages, cursor,
                    handle, downloaded_files, outcomes >>

\* lines 615-620: the response has come and the destination is opened
SccmGetOpen ==
    /\ pc = "download"
    /\ fstep = "await"
    /\ fs' = Opened(SccmPath(cursor))
    /\ handle' = FreshHandle
    /\ fstep' = "write"
    /\ UNCHANGED << inputVars, rlog, extractVars, run, pc, exitCode, dirs, manifest,
                    netCalls, bulkVars, selected_indices, indices, lastInput,
                    linesRead, handled, rejected, selected_packages, cursor,
                    downloaded_files, outcomes >>

\* the offset of the handle of line 620: the chunks f.write has taken, in
\* the file or still in the buffer
SccmOffset == handle.off

\* the filesystem after the with-block of line 620 is left: the close writes
\* out what the buffer holds (the main thread is the file's only writer and
\* nothing unlinks the path while it is open)
SccmClosed ==
    Flushed(SccmPath(cursor), TRUE, handle.off - handle.buf + 1, handle.off)

\* lines 622-625: the response yields a chunk and f.write takes it: it
\* stays in the buffer, or it is written out with what the buffer held
SccmWriteChunk ==
    /\ pc = "download"
    /\ fstep = "write"
    /\ SccmOffset < Chunks
    /\ \E keep \in KeptAfterWrite(handle.buf, 1) :
          /\ fs' = Flushed(SccmPath(cursor), TRUE,
                           handle.off - handle.buf + 1, handle.off + 1 - keep)
          /\ handle' = [off |-> handle.off + 1, buf |-> keep]
    /\ UNCHANGED << inputVars, rlog, extractVars, run, pc, exitCode, dirs, manifest,
                    netCalls, bulkVars, selected_indices, indices, lastInput,
                    linesRead, handled, rejected, selected_packages, cursor,
                    fstep, downloaded_files, outcomes >>

\* line 624, when the chunk does not fit beside what the buffer holds:
\* f.write first writes out the buffer, in a system call of its own, and
\* takes the chunk after it (the next step)
SccmWriteOutBuffer ==
    /\ pc = "download"
    /\ fstep = "write"
    /\ SccmOffset < Chunks
    /\ handle.buf > 0
    /\ fs' = SccmClosed
    /\ handle' = [handle EXCEPT !.buf = 0]
    /\ UNCHANGED << inputVars, rlog, extractVars, run, pc, exitCode, dirs, manifest,
                    netCalls, bulkVars, selected_indices, indices, lastInput,
                    linesRead, handled, rejected, selected_packages, cursor,
                    fstep, downloaded_files, outcomes >>

\* lines 620-628: the response reports the end of the body (line 622), the
\* file is closed and appended to downloaded_files
SccmWriteDone ==
    /\ pc = "download"
    /\ fstep = "write"
    /\ SccmOffset = Chunks
    /\ fs' = SccmClosed
    /\ handle' = FreshHandle
    /\ downloaded_files' = Append(downloaded_files, SccmPath(cursor))
    /\ outcomes' = Append(outcomes, "completed")
    /\ cursor' = cursor + 1
    /\ fstep' = "check"
    /\ UNCHANGED << inputVars, rlog, extractVars, run, pc, exitCode, dirs, manifest,
                    netCalls, bulkVars, selected_indices, indices, lastInput,
                    linesRead, handled, rejected, selected_packages >>

\* lines 620-630: reading or writing a chunk raises; the with-block closes
\* the file, which writes out the buffer, before the handler of line 630 runs
SccmWriteFail ==
    /\ pc = "download"
    /\ fstep = "write"
    /\ fs' = SccmClosed
    /\ handle' = FreshHandle
    /\ fstep' = "cleanup"
    /\ UNCHANGED << inputVars, rlog, extractVars, run, pc, exitCode, dirs, manifest,
                    netCalls, bulkVars, selected_indices, indices, lastInput,
                    linesRead, handled, rejected, selected_packages, cursor,
                    downloaded_files, outcomes >>

\* lines 630-633: the handler removes what was written; the file is not
\* appended to downloaded_files
SccmCleanup ==
    /\ pc = "download"
    /\ fstep = "cleanup"
    /\ fs' = IF CleansUp(SccmPath(cursor)) THEN Unlinked(SccmPath(cursor)) ELSE fs
    /\ outcomes' = Append(outcomes, "failed")
    /\ cursor' = cursor + 1
    /\ fstep' = "check"
    /\ UNCHANGED << inputVars, rlog, extractVars, run, pc, exitCode, dirs, manifest,
                    netCalls, bulkVars, selected_indices, indices, lastInput,
                    linesRead, handled, rejected, selected_packages, handle,
                    downloaded_files >>

\* lines 635-663 with extraction switched off (--no-extract) or nothing
\* downloaded: the summary is printed and the function returns
SccmFinish ==
    /\ pc = "download"
    /\ fstep = "check"
    /\ ~MoreFiles
    /\ ~(extract /\ downloaded_files # <<>>)
    /\ pc' = "done"
    /\ exitCode' = 0
    /\ UNCHANGED << inputVars, rlog, extractVars, run, dirs, fs, manifest, netCalls,
                    bulkVars, sccmVars >>

(***************************************************************************)
(* The catalog resolver: get_product_info and get_drivers_list.            *)
(***************************************************************************)
\* what a product lookup request can come back with: a non-empty list whose
\* first element is the product, an empty list, a status other than 200, a
\* body json() cannot parse, a transport error raised by session.get
LookupAnswers == {"found", "empty", "non200", "malformed", "exception"}

\* what the request for the product page can come back with: a page that
\* holds "productId": "...", a page without it, a status other than 200, a
\* transport error
PageAnswers == {"match", "nomatch", "non200", "exception"}

Lookups == [primary : LookupAnswers, page : PageAnswers, requery : LookupAnswers]

\* a lookup without a product falls through to the next strategy
AlwaysFallsThrough(answer) == TRUE

\* lines 67-75 (and 91-98): only a 200 answer with a non-empty list returns
\* the product; every other answer leaves the try block without a return
FallsThrough(answer) == answer # "found"

\* lines 63-75: the primary lookup
LookupPrimary ==
    /\ pc = "lookup"
    /\ rlog' = Append(rlog, "primary")
    /\ pc' = IF FallsThrough(lookup.primary) THEN "page" ELSE "start"
    /\ UNCHANGED << inputVars, extractVars, run, exitCode, dirs, fs,
                    manifest, netCalls, bulkVars, sccmVars >>

\* lines 78-86 and 97-100: the product page is fetched and searched for a
\* product id; without one the ValueError of line 100 reaches main's handler
\* (lines 759-761)
LookupPage ==
    /\ pc = "page"
    /\ rlog' = Append(rlog, "page")
    /\ IF lookup.page = "match"
       THEN pc' = "requery" /\ UNCHANGED exitCode
       ELSE pc' = "exit" /\ exitCode' = 1
    /\ UNCHANGED << inputVars, extractVars, run, dirs, fs,
                    manifest, netCalls, bulkVars, sccmVars >>

\* lines 87-100: the lookup is repeated with the scraped product id
LookupRequery ==
    /\ pc = "requery"
    /\ rlog' = Append(rlog, "requery")
    /\ IF FallsThrough(lookup.requery)
       THEN pc' = "exit" /\ exitCode' = 1
       ELSE pc' = "start" /\ UNCHANGED exitCode
    /\ UNCHANGED << inputVars, extractVars, run, dirs, fs,
                    manifest, netCalls, bulkVars, sccmVars >>

\* the listing answers: a status, and for a 200 answer the items under
\* body.DownloadItems and under DownloadItems (primary) or under Downloads
\* (secondary)
ListingStatus == {"ok200", "non200", "malformed", "exception"}

NoUrl == <<>>

SomeUrl == <<"h", "/", "b">>

\* an item of the primary answer: bad stands for an item whose shape makes the
\* parse raise (a Category that is no object, a Files entry that is no object)
BadItem == [bad |-> TRUE, category |-> <<"A">>, files |-> <<>>]

PrimaryItems ==
    { BadItem } \cup
    [bad : {FALSE}, category : {<<"A">>},
     files : { <<>>, << [url |-> NoUrl] >>, << [url |-> SomeUrl] >>,
               << [url |-> NoUrl], [url |-> SomeUrl] >> }]

\* an item of the secondary answer: one DownloadUrl
SecondaryItems == [bad : BOOLEAN, category : {<<"A">>}, url : {NoUrl, SomeUrl}]

\* a file entry is kept whatever its URL is
KeepsAnyFile(f) == TRUE

\* line 145 (and line 175): a file entry is kept only with a non-empty URL
KeepsFile(f) == f.url # NoUrl

\* lines 127-149: the records of the items up to the first one that raises
RECURSIVE ParsePrimary(_, _)
ParsePrimary(items, acc) ==
    IF items = <<>> THEN [raised |-> FALSE, drivers |-> acc]
    ELSE IF Head(items).bad THEN [raised |-> TRUE, drivers |-> acc]
    ELSE LET files == SelectSeq(Head(items).files, KeepsFile)
         IN ParsePrimary(Tail(items),
                IF files # <<>>
                THEN Append(acc, [category |-> Head(items).category, files |-> files])
                ELSE acc)

\* lines 166-181: one record with one file per item that has a DownloadUrl
RECURSIVE ParseSecondary(_, _)
ParseSecondary(items, acc) ==
    IF items = <<>> THEN acc
    ELSE IF Head(items).bad THEN acc
    ELSE ParseSecondary(Tail(items),
            IF KeepsFile(Head(items))
            THEN Append(acc, [category |-> Head(items).category,
                              files |-> << [url |-> Head(items).url] >>])
            ELSE acc)

\* lines 121-125: body.DownloadItems, or DownloadItems when that is empty
DownloadItems(answer) == IF answer.body # <<>> THEN answer.body ELSE answer.top

\* lines 110-189: the primary answer is returned when its parse went through;
\* otherwise the secondary answer's records are appended to what the primary
\* parse had collected when it raised
GetDriversList(l) ==
    LET first == IF l.primary.status = "ok200"
                 THEN ParsePrimary(DownloadItems(l.primary), <<>>)
                 ELSE [raised |-> TRUE, drivers |-> <<>>]
    IN IF ~first.raised THEN first.drivers
       ELSE IF l.secondary.status = "ok200"
            THEN ParseSecondary(l.secondary.items, first.drivers)
            ELSE first.drivers

\* a primary answer whose items are the records of a driver list
ListingOf(ds) ==
    [primary |-> [status |-> "ok200",
                  body |-> [i \in 1..Len(ds) |->
                               [bad |-> FALSE, category |-> ds[i].category,
                                files |-> ds[i].files]],
                  top |-> <<>>],
     secondary |-> [status |-> "non200", items |-> <<>>]]

\* the product is found by the primary lookup
LookupFound == [primary |-> "found", page |-> "nomatch", requery |-> "empty"]

(***************************************************************************)
(* The extraction pipeline: the extraction loop of download_sccm_packages, *)
(* extract_sccm_package, _extract_sccm_windows, _extract_sccm_unix and     *)
(* _cleanup_extract_artifacts.  A directory is modelled by the kinds of    *)
(* entries it holds.                                                       *)
(***************************************************************************)
\* pathlib's suffix and stem: the name is cut at its last dot, unless that
\* dot is the first or the last character
LastDot(name) == IF Positions(name, ".") = {} THEN 0 ELSE MaxOf(Positions(name, "."))

HasSuffix(name) == 1 < LastDot(name) /\ LastDot(name) < Len(name)

Suffix(name) == IF HasSuffix(name) THEN SubSeq(name, LastDot(name), Len(name)) ELSE <<>>

Stem(name) == IF HasSuffix(name) THEN SubSeq(name, 1, LastDot(name) - 1) ELSE name

\* line 639: filepath.suffix.lower() == '.exe'
IsExe(p) == Lower(Suffix(p.name)) = <<".", "e", "x", "e">>

\* line 640: extract_dir = sccm_dir / filepath.stem
ExtractDir(p) == [dir |-> p.dir, name |-> Stem(p.name)]

\* the entries a tool can leave in the output directory: driver-description
\* files, the inner payload and the certificate side-file
InfFile == "inf"

Payload == "[0]"

Certificate == "CERTIFICATE"

\* line 508: the names _cleanup_extract_artifacts removes
Artifacts == {"[0]", "CERTIFICATE", "[1]", "[2]"}

\* how subprocess.run can end: exit status 0, another exit status,
\* TimeoutExpired, another exception (the program cannot be started, or it
\* ran and what it printed is no text that text=True can decode)
ToolResults == {"zero", "nonzero", "timeout", "error"}

\* what a tool has put into the output directory when subprocess.run ended
SelfExtractOutputs == { {}, {InfFile} }

OuterOutputs == SUBSET {InfFile, Payload, Certificate}

Stage2Outputs == { {}, {InfFile} }

\* an invocation: how subprocess.run ended and what the tool had written by
\* then, whichever way it ended
Runs(outputs) == [result : ToolResults, adds : outputs]

\* the tools of the model; "7z" stands for whichever of 7z, 7zz, 7za is found
SevenZip == "7z"

CabExtract == "cabextract"

InnoExtract == "innoextract"

ToolSets == SUBSET {SevenZip, CabExtract, InnoExtract}

Platforms == {"win32", "unix"}

\* the archive the extraction loop is at, and its output directory
Archive == downloaded_files[xcursor]

Target == ExtractDir(Archive)

\* the directories after a tool has added entries to the target
Filled(adds) ==
    [d \in DOMAIN xdirs |-> IF d = Target THEN xdirs[d] \cup adds ELSE xdirs[d]]

\* line 362: extract_dir.mkdir(parents=True, exist_ok=True)
MadeDir(d) == [e \in DOMAIN xdirs \cup {d} |-> IF e \in DOMAIN xdirs THEN xdirs[e] ELSE {}]

\* lines 506-514, on the directories ds: every artifact that is there is
\* unlinked; an unlink that raises is passed over (lines 511-514), `stuck`
\* are the artifacts whose unlink raises
Cleaned(ds, stuck) ==
    [d \in DOMAIN ds |-> IF d = Target THEN ds[d] \ (Artifacts \ stuck) ELSE ds[d]]

\* an extraction loop that never takes an archive for extracted
NeverExtracted(d) == FALSE

\* an extraction loop that takes every archive for extracted
AlwaysExtracted(d) == TRUE

\* line 641: extract_dir.exists() and any(extract_dir.iterdir())
AlreadyExtracted(d) == d \in DOMAIN xdirs /\ xdirs[d] # {}

\* subprocess.run returned (it raised neither TimeoutExpired nor another
\* exception)
Returned(result) == result \in {"zero", "nonzero"}

\* lines 382 and 394: result.returncode == 0 or any(extract_dir.iterdir())
AttemptSucceeded(result, content) == result = "zero" \/ content # {}

\* a stage 2 that goes to 7z whatever else is installed
Stage2SevenOnly(tool) == "seven"

\* lines 453, 466, 479: the stage-2 tool that comes after `tool` in the
\* order cabextract, innoextract, 7z, among those that are available
Stage2After(tool) ==
    IF tool = "outer" /\ CabExtract \in tools THEN "cab"
    ELSE IF tool \in {"outer", "cab"} /\ InnoExtract \in tools THEN "inno"
    ELSE "seven"

Invoked(tool, result) == Append(toolLog, [k |-> xcursor, tool |-> tool, result |-> result])

\* the directories whose extraction has returned True, after a step of the
\* extraction of the current archive: its directory joins them when the step
\* has ended the extraction with True (lines 384, 396, 445, 447, 463, 476, 488)
SucceededAfter ==
    IF Len(xresults') > Len(xresults) /\ xresults'[Len(xresults')] = "ok"
    THEN xsucceeded \cup {Target}
    ELSE xsucceeded

\* lines 635-637: the extraction loop is entered
ExtractBegin ==
    /\ pc = "download"
    /\ fstep = "check"
    /\ ~MoreFiles
    /\ extract
    /\ downloaded_files # <<>>
    /\ pc' = "extract"
    /\ xcursor' = 1
    /\ xstep' = "check"
    /\ UNCHANGED << inputVars, rlog, run, exitCode, dirs, fs, manifest,
                    netCalls, bulkVars, sccmVars, xdirs, toolLog, xresults, xcleaned,
                    xsucceeded >>

\* lines 638-645, 362-368 and 408-421: the next downloaded file; an archive
\* whose directory is populated is passed over, for another the directory is
\* made and the platform's extraction begun; without 7-Zip the extraction on
\* another platform than Windows fails at once
ExtractCheck ==
    /\ pc = "extract"
    /\ xstep = "check"
    /\ xcursor <= Len(downloaded_files)
    /\ IF ~IsExe(Archive)
       THEN /\ xresults' = Append(xresults, "noexe")
            /\ xcursor' = xcursor + 1
            /\ UNCHANGED << xdirs, xstep >>
       ELSE IF AlreadyExtracted(Target)
       THEN /\ xresults' = Append(xresults, "skipped")
            /\ xcursor' = xcursor + 1
            /\ UNCHANGED << xdirs, xstep >>
       ELSE /\ xdirs' = MadeDir(Target)
            /\ IF platform = "win32"
               THEN xstep' = "first" /\ UNCHANGED << xresults, xcursor >>
               ELSE IF SevenZip \notin tools
               THEN /\ xresults' = Append(xresults, "failed")
                    /\ xcursor' = xcursor + 1
                    /\ UNCHANGED xstep
               ELSE xstep' = "outer" /\ UNCHANGED << xresults, xcursor >>
    /\ UNCHANGED << inputVars, rlog, run, pc, exitCode, dirs, fs,
                    manifest, netCalls, bulkVars, sccmVars, toolLog, xcleaned,
                    xsucceeded >>

\* lines 372-385 and 401-403: the self-extractor is run with /VERYSILENT
\* /DIR=; an exception of subprocess.run ends the extraction as failed
WinFirst(o) ==
    /\ pc = "extract"
    /\ xstep = "first"
    /\ toolLog' = Invoked("first", o.result)
    /\ xdirs' = Filled(o.adds)
    /\ IF Returned(o.result) /\ ~AttemptSucceeded(o.result, xdirs'[Target])
       THEN xstep' = "alt" /\ UNCHANGED << xresults, xcursor >>
       ELSE /\ xresults' = Append(xresults, IF Returned(o.result) THEN "ok" ELSE "failed")
            /\ xcursor' = xcursor + 1
            /\ xstep' = "check"
    /\ xsucceeded' = SucceededAfter
    /\ UNCHANGED << inputVars, rlog, run, pc, exitCode, dirs, fs,
                    manifest, netCalls, bulkVars, sccmVars, xcleaned >>

\* lines 386-403: the self-extractor is run with /extract:
WinAlt(o) ==
    /\ pc = "extract"
    /\ xstep = "alt"
    /\ toolLog' = Invoked("alt", o.result)
    /\ xdirs' = Filled(o.adds)
    /\ xresults' = Append(xresults,
          IF Returned(o.result) /\ AttemptSucceeded(o.result, xdirs'[Target])
          THEN "ok" ELSE "failed")
    /\ xcursor' = xcursor + 1
    /\ xstep' = "check"
    /\ xsucceeded' = SucceededAfter
    /\ UNCHANGED << inputVars, rlog, run, pc, exitCode, dirs, fs,
                    manifest, netCalls, bulkVars, sccmVars, xcleaned >>

\* an outer unpack that counts every run of 7z as good
OuterAlwaysGood(result) == TRUE

\* lines 433-435 and 499-504: the outer unpack is good when subprocess.run
\* returned with exit status 0
OuterGood(result) == result = "zero"

\* line 440: stage 2 is entered when the outer unpack left '[0]'
EntersStage2(content) == Payload \in content

\* lines 423-450 and 499-504: stage 1, 7z x on the archive; a non-zero exit
\* status or an exception ends the extraction as failed, a zero one without
\* '[0]' in the directory as done
UnixOuter(o) ==
    /\ pc = "extract"
    /\ xstep = "outer"
    /\ toolLog' = Invoked("outer", o.result)
    /\ xdirs' = Filled(o.adds)
    /\ IF OuterGood(o.result) /\ EntersStage2(xdirs'[Target])
       THEN xstep' = Stage2After("outer") /\ UNCHANGED << xresults, xcursor >>
       ELSE /\ xresults' = Append(xresults, IF OuterGood(o.result) THEN "ok" ELSE "failed")
            /\ xcursor' = xcursor + 1
            /\ xstep' = "check"
    /\ xsucceeded' = SucceededAfter
    /\ UNCHANGED << inputVars, rlog, run, pc, exitCode, dirs, fs,
                    manifest, netCalls, bulkVars, sccmVars, xcleaned >>

\* what follows a stage-2 tool that `tool` names: after exit status 0 the
\* artifacts are gone over and the extraction is done; after an exception it
\* has failed; after another exit status the next tool is tried, and after
\* the last one the extraction has failed
Stage2Step(tool, o) ==
    /\ toolLog' = Invoked(tool, o.result)
    /\ IF o.result = "zero"
       THEN /\ \E stuck \in SUBSET (Filled(o.adds)[Target] \cap Artifacts) :
                  xdirs' = Cleaned(Filled(o.adds), stuck)
            /\ xcleaned' = xcleaned \cup {xcursor}
       ELSE /\ xdirs' = Filled(o.adds)
            /\ UNCHANGED xcleaned
    /\ IF o.result = "nonzero" /\ tool # "seven"
       THEN xstep' = Stage2After(tool) /\ UNCHANGED << xresults, xcursor >>
       ELSE /\ xresults' = Append(xresults, IF o.result = "zero" THEN "ok" ELSE "failed")
            /\ xcursor' = xcursor + 1
            /\ xstep' = "check"
    /\ xsucceeded' = SucceededAfter
    /\ UNCHANGED << inputVars, rlog, run, pc, exitCode, dirs, fs,
                    manifest, netCalls, bulkVars, sccmVars >>

\* lines 452-463 and 499-504: cabextract on the payload
UnixCab(o) == pc = "extract" /\ xstep = "cab" /\ Stage2Step("cab", o)

\* lines 465-476 and 499-504: innoextract on the payload
UnixInno(o) == pc = "extract" /\ xstep = "inno" /\ Stage2Step("inno", o)

\* lines 478-504: 7z x -t* on the payload
UnixSeven(o) == pc = "extract" /\ xstep = "seven" /\ Stage2Step("seven", o)

\* lines 647-663 after the extraction loop: the summary, and the return
ExtractFinish ==
    /\ pc = "extract"
    /\ xstep = "check"
    /\ xcursor > Len(downloaded_files)
    /\ pc' = "done"
    /\ exitCode' = 0
    /\ UNCHANGED << inputVars, rlog, extractVars, run, dirs, fs,
                    manifest, netCalls, bulkVars, sccmVars >>

(***************************************************************************)
(* KeyboardInterrupt.  Python raises it in the main thread only; no        *)
(* `except Exception` catches it, main's handler (lines 762-764) ends the  *)
(* process with status 1.                                                  *)
(***************************************************************************)
\* where the main thread of a specialized-package run is outside input():
\* in the product lookup, the listing request, the selection, the download
\* loop
SccmPlaces == {"lookup", "page", "requery", "start", "select", "download"}

\* lines 525-663 and 762-764: the interrupt arrives in a specialized-package
\* run, anywhere but in the try of the prompt (lines 578-580) and in the
\* extraction. Between lines 594 and 596 the output directory is there
\* without the SCCM directory (after line 596 the run is at the download
\* loop); while a file is open the with-block closes it, which writes out the
\* buffer, and the cleanup of line 630 is not run
SccmInterrupt ==
    /\ mode = "sccm"
    /\ pc \in SccmPlaces
    /\ pc' = "exit"
    /\ exitCode' = 1
    /\ IF pc = "select" /\ SelectionGoesOn
       THEN dirs' \in {dirs, dirs \cup {OutDir}}
       ELSE UNCHANGED dirs
    /\ IF pc = "download" /\ fstep = "write"
       THEN fs' = SccmClosed /\ handle' = FreshHandle
       ELSE UNCHANGED << fs, handle >>
    /\ UNCHANGED << inputVars, rlog, extractVars, run, manifest, netCalls,
                    bulkVars, selected_indices, indices, lastInput, linesRead,
                    handled, rejected, selected_packages, cursor, fstep,
                    downloaded_files, outcomes >>

\* what the tool of an extraction step can have written when it is stopped
StepOutputs(step) ==
    IF step \in {"first", "alt"} THEN SelfExtractOutputs
    ELSE IF step = "outer" THEN OuterOutputs
    ELSE Stage2Outputs

\* the steps whose tool is followed, after exit status 0, by the cleanup of
\* the artifacts (lines 460, 473, 485)
Stage2Steps == {"cab", "inno", "seven"}

\* lines 635-645, 352-514 and 762-764: the interrupt arrives in the
\* extraction loop, and no handler of the extraction catches it. It can
\* arrive between two invocations, also after the mkdir of line 362; while
\* subprocess.run waits for a tool, which is stopped with what it has written
\* left in place; or after subprocess.run has ended, before the result of the
\* extraction is returned: the invocation is made, its outcome is not
\* reported, and the cleanup of lines 506-514 may have removed some of the
\* artifacts
ExtractInterrupt ==
    /\ pc = "extract"
    /\ pc' = "exit"
    /\ exitCode' = 1
    /\ \/ UNCHANGED << xdirs, toolLog >>
       \/ /\ xstep = "check"
          /\ xcursor <= Len(downloaded_files)
          /\ IsExe(Archive)
          /\ ~AlreadyExtracted(Target)
          /\ xdirs' = MadeDir(Target)
          /\ UNCHANGED toolLog
       \/ /\ xstep # "check"
          /\ toolLog' = Invoked(xstep, "interrupt")
          /\ \E adds \in StepOutputs(xstep) : xdirs' = Filled(adds)
       \/ /\ xstep # "check"
          /\ \E o \in Runs(StepOutputs(xstep)) :
                /\ toolLog' = Invoked(xstep, o.result)
                /\ \/ xdirs' = Filled(o.adds)
                   \/ /\ xstep \in Stage2Steps
                      /\ o.result = "zero"
                      /\ \E left \in SUBSET (Filled(o.adds)[Target] \cap Artifacts) :
                            xdirs' = Cleaned(Filled(o.adds), left)
    /\ UNCHANGED << inputVars, rlog, run, dirs, fs, manifest, netCalls,
                    bulkVars, sccmVars, xcursor, xstep, xresults, xcleaned,
                    xsucceeded >>

\* where the main thread of a bulk run is before the pool exists: in the
\* product lookup, the listing request, the manifest and the task list
BeforePool == {"lookup", "page", "requery", "start", "resolved", "manifest"}

\* the category directories the loop of lines 267-274 has made after k of
\* its rounds
CategoryDirsUpTo(k) == {CategoryDir(drivers[i].category) : i \in 1..k}

\* lines 232-306 and 762-764: the interrupt arrives in a bulk run. Before the
\* pool exists it ends the process at once: in lines 245-264 before the mkdir
\* of line 252, after it with the manifest not yet opened, or in the dump
\* with the manifest opened and not finished; in lines 266-281 after any
\* number of rounds of the loop that makes the category directories. While
\* the main thread submits the tasks or waits in as_completed, the executor's
\* with-block first waits for the workers, which go on with every call
\* submitted so far; a task not yet submitted is never run
BulkInterrupt ==
    /\ mode = "bulk"
    /\ pc \in BeforePool \cup {"tasks", "transfer"}
    /\ IF pc \in BeforePool
       THEN pc' = "exit" /\ exitCode' = 1
       ELSE pc' = "interrupted" /\ UNCHANGED exitCode
    /\ IF pc = "resolved"
       THEN \/ UNCHANGED << dirs, manifest >>
            \/ dirs' = dirs \cup {OutDir} /\ UNCHANGED manifest
            \/ dirs' = dirs \cup {OutDir} /\ manifest' = PartialManifest
       ELSE IF pc = "manifest"
       THEN /\ \E k \in 0..Len(drivers) : dirs' = dirs \cup CategoryDirsUpTo(k)
            /\ UNCHANGED manifest
       ELSE UNCHANGED << dirs, manifest >>
    /\ UNCHANGED << inputVars, rlog, extractVars, run, fs, netCalls,
                    bulkVars, sccmVars >>

\* lines 284 and 762-764: the workers are done, the exception reaches main
BulkInterruptExit ==
    /\ pc = "interrupted"
    /\ \A t \in DOMAIN tstate : tstate[t].pc \in Terminal
    /\ pc' = "exit"
    /\ exitCode' = 1
    /\ UNCHANGED << inputVars, rlog, extractVars, run, dirs, fs,
                    manifest, netCalls, bulkVars, sccmVars >>

(***************************************************************************)
(* A run of the program, and the next run on the same output directory.    *)
(***************************************************************************)
NoSelection == [given |-> FALSE, idx |-> <<>>]

Ended == pc \in {"done", "exit"}

\* the program is started again with the same arguments: the process state is
\* new, the output directory is what the run before left. main() runs from
\* the top: product_info is None in the new process (line 104), so the
\* product lookup of lines 64-100 is made again
Rerun ==
    /\ Ended
    /\ run < MaxRuns
    /\ run' = run + 1
    /\ pc' = "lookup"
    /\ exitCode' = -1
    /\ fetched' = <<>>
    /\ drivers' = <<>>
    /\ manifestWrites' = 0
    /\ tasks' = <<>>
    /\ tstate' = <<>>
    /\ counted' = {}
    /\ tally' = <<>>
    /\ success_count' = 0
    /\ skip_count' = 0
    /\ fail_count' = 0
    /\ netCalls' = 0
    /\ selected_indices' = NoSelection
    /\ indices' = <<>>
    /\ lastInput' = <<>>
    /\ linesRead' = 0
    /\ handled' = 0
    /\ rejected' = 0
    /\ selected_packages' = <<>>
    /\ cursor' = 0
    /\ fstep' = "idle"
    /\ handle' = FreshHandle
    /\ downloaded_files' = <<>>
    /\ outcomes' = <<>>
    /\ rlog' = <<>>
    /\ xcursor' = 0
    /\ xstep' = "idle"
    /\ toolLog' = <<>>
    /\ xresults' = <<>>
    /\ xcleaned' = {}
    /\ UNCHANGED << inputVars, dirs, fs, manifest, xdirs, xsucceeded >>

\* the state of a process that has just started
FreshProcess ==
    /\ run = 1
    /\ exitCode = -1
    /\ fetched = <<>>
    /\ drivers = <<>>
    /\ manifest = <<>>
    /\ manifestWrites = 0
    /\ tasks = <<>>
    /\ tstate = <<>>
    /\ counted = {}
    /\ tally = <<>>
    /\ success_count = 0
    /\ skip_count = 0
    /\ fail_count = 0
    /\ netCalls = 0
    /\ selected_indices = NoSelection
    /\ indices = <<>>
    /\ lastInput = <<>>
    /\ linesRead = 0
    /\ handled = 0
    /\ rejected = 0
    /\ selected_packages = <<>>
    /\ cursor = 0
    /\ fstep = "idle"
    /\ handle = FreshHandle
    /\ downloaded_files = <<>>
    /\ outcomes = <<>>
    /\ rlog = <<>>
    /\ xdirs = <<>>
    /\ xcursor = 0
    /\ xstep = "idle"
    /\ toolLog = <<>>
    /\ xresults = <<>>
    /\ xcleaned = {}
    /\ xsucceeded = {}

\* a process that has just started, in an empty output directory
FreshRun == FreshProcess /\ dirs = {} /\ fs = <<>>

\* a process that has just started in an empty output directory, before its
\* product lookup
FirstRun == pc = "lookup" /\ FreshRun

\* --workers is any integer (type=int, line 700)
WorkerChoices == {-1, 0, 1, 2}

\* the bulk workflow: any catalog, any category filter, any pool size
InitBulk ==
    /\ mode = "bulk"
    /\ catalog \in Catalogs
    /\ categories \in Filters
    /\ max_workers \in WorkerChoices
    /\ sccm_packages = <<>>
    /\ cliIndices = <<>>
    /\ extract = TRUE
    /\ platform = "unix"
    /\ tools = {}
    /\ lookup = LookupFound
    /\ listing = ListingOf(catalog)
    /\ FirstRun

\* the steps of one run of the bulk workflow, from the product lookup on: the
\* main thread's and the workers'
NextRun ==
    \/ LookupPrimary
    \/ Resolve
    \/ SaveManifest
    \/ PrepareTasks
    \/ Submit
    \/ \E t \in TaskIds : TakeCall(t)
    \/ \E t \in TaskIds : StartTask(t)
    \/ \E t \in TaskIds : GetSent(t)
    \/ \E t \in TaskIds : GetFail(t)
    \/ \E t \in TaskIds : GetOpen(t)
    \/ \E t \in TaskIds : WriteChunk(t)
    \/ \E t \in TaskIds : WriteOutBuffer(t)
    \/ \E t \in TaskIds : WriteBody(t)
    \/ \E t \in TaskIds : WriteDone(t)
    \/ \E t \in TaskIds : WriteFail(t)
    \/ \E t \in TaskIds : CleanupCheck(t)
    \/ \E t \in TaskIds : UnlinkStep(t)
    \/ \E t \in TaskIds : Collect(t)
    \/ Summary

NextBulk ==
    \/ NextRun
    \/ Rerun

SpecBulk == InitBulk /\ [][NextRun]_vars

\* the bulk workflow run twice on the same directory: any catalog on one
\* worker or none, the catalogs of at most two file entries on two workers
InitRerun ==
    /\ InitBulk
    /\ max_workers > 1 => catalog \in CatalogsUpTo(MaxTasks - 1)

SpecRerun == InitRerun /\ [][NextBulk]_vars

\* the pool under load: one run on one driver record with PoolTasks files of
\* different names, on a pool of 1 or 2 workers in an empty output directory,
\* and on the default pool in a directory that holds the first Stocked files
PoolTasks == 5

Stocked == 1

PoolNames == << "a", "b", "c", "d", "e", "f", "g" >>

PoolCatalog ==
    << [category |-> <<"A">>,
        files |-> [i \in 1..PoolTasks |-> [url |-> <<"h", "/", PoolNames[i]>>]]] >>

\* the output directory with the files of the first k tasks in place
PoolStock(k) ==
    LET ts == BuildTasks(PoolCatalog)
    IN [p \in {PathOf(ts[i].dir, ts[i].url) : i \in 1..k} |-> Body]

InitPool ==
    /\ mode = "bulk"
    /\ catalog = PoolCatalog
    /\ categories = <<>>
    /\ max_workers \in {1, 2, DefaultWorkers}
    /\ sccm_packages = <<>>
    /\ cliIndices = <<>>
    /\ extract = TRUE
    /\ platform = "unix"
    /\ tools = {}
    /\ lookup = LookupFound
    /\ listing = ListingOf(catalog)
    /\ pc = "lookup"
    /\ FreshProcess
    /\ IF max_workers = DefaultWorkers
       THEN /\ dirs = {OutDir, CategoryDir(PoolCatalog[1].category)}
            /\ fs = PoolStock(Stocked)
       ELSE /\ dirs = {}
            /\ fs = <<>>

SpecPool == InitPool /\ [][NextRun]_vars

\* one run of the bulk workflow on a catalog of at most one driver record (of
\* category 'A'), without a category filter, on a pool of 1 or 2 workers
InitUnfiltered ==
    /\ mode = "bulk"
    /\ catalog \in {c \in Catalogs : Len(c) <= 1 /\ \A i \in DOMAIN c : c[i].category = <<"A">>}
    /\ categories = <<>>
    /\ max_workers \in {1, 2}
    /\ sccm_packages = <<>>
    /\ cliIndices = <<>>
    /\ extract = TRUE
    /\ platform = "unix"
    /\ tools = {}
    /\ lookup = LookupFound
    /\ listing = ListingOf(catalog)
    /\ FirstRun

\* every thread that can take a step is scheduled in the end, and every step
\* ends (the GET has a timeout)
FairBulk == InitUnfiltered /\ [][NextRun]_vars /\ WF_vars(NextRun)

(***************************************************************************)
(* Properties of the bulk workflow.                                        *)
(***************************************************************************)
Failures == {"failed", "raised"}

\* C1: when a bulk run has printed its summary, the three counters add up to
\* the number of submitted tasks and every task has been counted exactly once,
\* whatever the results were (completed, skipped, failed, exception raised);
\* before that no task has been counted twice.
OutcomeCompleteness ==
    /\ \A t \in DOMAIN tally : tally[t] = IF t \in counted THEN 1 ELSE 0
    /\ success_count + skip_count + fail_count = Cardinality(counted)
    /\ (mode = "bulk" /\ pc = "done") =>
          /\ success_count + skip_count + fail_count = Len(tasks)
          /\ \A t \in TaskIds : tally[t] = 1

\* a finished run of three tasks: one completed, one failed, and one whose
\* unlink raised out of the worker
MixedOutcomesCounted ==
    /\ pc = "done"
    /\ Len(tasks) = 3
    /\ \E t, u, w \in TaskIds :
          /\ tstate[t].pc = "raised"
          /\ tstate[u].pc = "failed"
          /\ tstate[w].pc = "completed"

\* C2: after a bulk run, the destination path of a task that failed does not
\* exist.
NoPartialFiles ==
    (mode = "bulk" /\ pc = "done") =>
        \A t \in TaskIds : tstate[t].pc \in Failures => ~Exists(TaskPath(t))

\* C3: the second run on the same directory with the same catalog issues no
\* GET and skips every task, whatever the first run's outcomes were.
SecondRunAllSkipped ==
    (mode = "bulk" /\ run >= 2 /\ pc = "done") =>
        /\ netCalls = 0
        /\ \A t \in TaskIds : tstate[t].pc = "skipped"

\* C4: the submitted tasks have pairwise different destination paths, so no
\* two executing download_file calls work on the same path.
DisjointDestinations ==
    \A t, u \in DOMAIN tstate :
        t # u => TaskPath(t) # TaskPath(u)

\* C5: at every moment at most max_workers download_file calls are executing.
BoundedConcurrency ==
    PoolActive => Cardinality(Running) <= max_workers

\* the default pool is full and a submitted call is waiting
DefaultPoolFull ==
    /\ pc = "transfer"
    /\ max_workers = DefaultWorkers
    /\ Cardinality(Running) = DefaultWorkers
    /\ \E t \in DOMAIN tstate : tstate[t].pc = "queued"

\* C6: the summary is reached only when every submitted task has a terminal
\* outcome and has been counted, and a run in its transfer phase always
\* reaches it, whatever fails.
NoFailFast ==
    /\ []((mode = "bulk" /\ pc = "done") =>
            \A t \in TaskIds : tstate[t].pc \in Terminal /\ t \in counted)
    /\ (pc = "transfer" ~> pc = "done")

\* a finished run in which a task failed and a task submitted after it
\* completed
SiblingRanAfterFailure ==
    /\ pc = "done"
    /\ \E t, u \in TaskIds :
          t < u /\ tstate[t].pc \in Failures /\ tstate[u].pc = "completed"

\* C7: the 'drivers' field of the manifest a run has written is the list
\* get_drivers_list returned.
ManifestHoldsFetchedList ==
    manifestWrites >= 1 => manifest = << fetched >>

(***************************************************************************)
(* The specialized-package workflow, run with --no-extract.                *)
(***************************************************************************)
\* non-interactive: the package numbers come from --sccm-packages
InitCli ==
    /\ mode = "sccm"
    /\ catalog = <<>>
    /\ categories = <<>>
    /\ max_workers = DefaultWorkers
    /\ sccm_packages \in PackageLists
    /\ cliIndices \in CliIndexLists
    /\ extract = FALSE
    /\ platform = "unix"
    /\ tools = {}
    /\ lookup = LookupFound
    /\ listing = ListingOf(catalog)
    /\ FirstRun

NextCli ==
    \/ LookupPrimary
    \/ SccmStart
    \/ Select
    \/ SccmCheck
    \/ SccmGetSent
    \/ SccmGetFail
    \/ SccmGetOpen
    \/ SccmWriteChunk
    \/ SccmWriteOutBuffer
    \/ SccmWriteDone
    \/ SccmWriteFail
    \/ SccmCleanup
    \/ SccmFinish
    \/ Rerun

SpecCli == InitCli /\ [][NextCli]_vars

\* interactive: one run in which the user is prompted, on package lists of
\* one-file packages
InitPrompt ==
    /\ mode = "sccm"
    /\ catalog = <<>>
    /\ categories = <<>>
    /\ max_workers = DefaultWorkers
    /\ sccm_packages \in {pl \in PackageLists :
                             \A i \in DOMAIN pl : Len(pl[i].files) = 1}
    /\ cliIndices = <<>>
    /\ extract = FALSE
    /\ platform = "unix"
    /\ tools = {}
    /\ lookup = LookupFound
    /\ listing = ListingOf(catalog)
    /\ FirstRun

NextPrompt ==
    \/ LookupPrimary
    \/ SccmStart
    \/ \E line \in PromptLines : Prompt(line)
    \/ PromptInterrupt
    \/ PromptEof
    \/ PromptEscape
    \/ Select
    \/ SccmCheck
    \/ SccmGetSent
    \/ SccmGetFail
    \/ SccmGetOpen
    \/ SccmWriteChunk
    \/ SccmWriteOutBuffer
    \/ SccmWriteDone
    \/ SccmWriteFail
    \/ SccmCleanup
    \/ SccmFinish

SpecPrompt == InitPrompt /\ [][NextPrompt]_vars

(***************************************************************************)
(* Properties of the manifest and of the package selection.                *)
(***************************************************************************)
TransferStarted ==
    \/ \E t \in DOMAIN tstate : tstate[t].pc # "queued"
    \/ pc = "download"
    \/ outcomes # <<>>

\* C8: a run that transfers files (bulk or specialized-package) has written
\* the manifest exactly once, after catalog resolution and before its first
\* download started, and never writes it again.
ManifestOnceBeforeTransfer ==
    /\ manifestWrites <= 1
    /\ manifestWrites = 1 => pc # "start"
    /\ TransferStarted => manifestWrites = 1

\* C9: with --sccm-packages, an index outside 1..N for a list of N >= 1
\* packages is a hard error: nothing is selected, no directory is created, no
\* download is started and the process ends with a non-zero status.
OutOfRangeIndexIsHardError ==
    (/\ mode = "sccm"
     /\ sccm_packages # <<>>
     /\ \E k \in 1..Len(cliIndices) : cliIndices[k] \notin 1..Len(sccm_packages)) =>
        /\ selected_packages = <<>>
        /\ dirs = {}
        /\ fs = <<>>
        /\ netCalls = 0
        /\ pc # "download"
        /\ Ended => exitCode = 1

\* the tokens of a typed line: its comma-separated pieces without the blanks
\* around them; a piece that is blank is no token (line 562 passes over it)
Tokens(line) ==
    LET pieces == Split(Lower(Strip(line)), ",")
    IN {Strip(pieces[i]) : i \in 1..Len(pieces)} \ { <<>> }

IsKeyword(line) == Lower(Strip(line)) \in {KeywordAll, KeywordNone}

\* C10 as stated: against N packages, a line read at the prompt is translated,
\* whatever happens after input() has returned it: "all" selects 0..N-1; a
\* line whose tokens are all integers in 1..N selects exactly {n-1 : n a
\* token}; a line with a token that is no integer or is outside 1..N selects
\* nothing, is counted as rejected and leaves the program at the prompt (or
\* cancelled or ended from there) with nothing created.
EveryLineReadIsTranslated ==
    (mode = "sccm" /\ linesRead > 0) =>
        LET n == Len(sccm_packages)
            toks == Tokens(lastInput)
        IN /\ Lower(Strip(lastInput)) = KeywordAll =>
                selected_indices = [given |-> TRUE, idx |-> Range(n)]
           /\ (/\ ~IsKeyword(lastInput)
               /\ toks # {}
               /\ \A t \in toks : IsInt(t) /\ IntOf(t) \in 1..n) =>
                /\ selected_indices.given
                /\ {selected_indices.idx[i] : i \in 1..Len(selected_indices.idx)}
                      = {IntOf(t) - 1 : t \in toks}
                /\ \A i \in 1..(Len(selected_indices.idx) - 1) :
                      selected_indices.idx[i] < selected_indices.idx[i + 1]
                /\ pc # "prompt"
           /\ (/\ ~IsKeyword(lastInput)
               /\ \E t \in toks : ~IsInt(t) \/ IntOf(t) \notin 1..n) =>
                /\ selected_indices = NoSelection
                /\ rejected = linesRead
                /\ pc \in {"prompt", "done", "exit"}
                /\ pc = "exit" => exitCode = 1
                /\ selected_packages = <<>>
                /\ dirs = {}
                /\ netCalls = 0

\* C10: against N packages, the line last read at the prompt decides the
\* selection alone. When the loop has handled it to its end: "all" selects
\* 0..N-1; a line whose tokens are all integers in 1..N selects exactly
\* {n-1 : n a token}, sorted and without duplicates, whatever was rejected
\* before it; a line with a token that is no integer or is outside 1..N
\* selects nothing, is counted as rejected and leaves the program at the
\* prompt (or cancelled from there, or ended from there with status 1 when the
\* input is at its end) with nothing created. When Ctrl-C has stopped the
\* loop's work on it, the line, whatever it is, selects nothing and is not
\* counted as rejected: the run has ended as cancelled with status 0 and
\* nothing created. Every line read before the last one was handled to its
\* end and rejected.
IndexTranslation ==
    (mode = "sccm" /\ linesRead > 0) =>
        LET n == Len(sccm_packages)
            toks == Tokens(lastInput)
        IN /\ handled \in {linesRead - 1, linesRead}
           /\ rejected >= linesRead - 1
           /\ handled = linesRead =>
                /\ Lower(Strip(lastInput)) = KeywordAll =>
                     selected_indices = [given |-> TRUE, idx |-> Range(n)]
                /\ (/\ ~IsKeyword(lastInput)
                    /\ toks # {}
                    /\ \A t \in toks : IsInt(t) /\ IntOf(t) \in 1..n) =>
                     /\ selected_indices.given
                     /\ {selected_indices.idx[i] : i \in 1..Len(selected_indices.idx)}
                           = {IntOf(t) - 1 : t \in toks}
                     /\ \A i \in 1..(Len(selected_indices.idx) - 1) :
                           selected_indices.idx[i] < selected_indices.idx[i + 1]
                     /\ pc # "prompt"
                /\ (/\ ~IsKeyword(lastInput)
                    /\ \E t \in toks : ~IsInt(t) \/ IntOf(t) \notin 1..n) =>
                     /\ selected_indices = NoSelection
                     /\ rejected = linesRead
                     /\ pc \in {"prompt", "done", "exit"}
                     /\ pc = "exit" => exitCode = 1
                     /\ selected_packages = <<>>
                     /\ dirs = {}
                     /\ netCalls = 0
           /\ handled < linesRead =>
                /\ pc = "done"
                /\ exitCode = 0
                /\ selected_indices = NoSelection
                /\ rejected = handled
                /\ selected_packages = <<>>
                /\ dirs = {}
                /\ netCalls = 0

\* "1,3" typed against three packages after a rejected line selects {0, 2}
AcceptedAfterRejection ==
    /\ pc = "select"
    /\ rejected >= 1
    /\ Len(sccm_packages) = 3
    /\ lastInput = <<"1", ",", "3">>
    /\ selected_indices = [given |-> TRUE, idx |-> <<0, 2>>]

(***************************************************************************)
(* The specialized-package workflow with the prompt and the extraction.    *)
(***************************************************************************)
\* interactive, with extraction switched on, on either platform with every
\* tool installed, on lists of at most two one-file packages
InitInteractive ==
    /\ mode = "sccm"
    /\ catalog = <<>>
    /\ categories = <<>>
    /\ max_workers = DefaultWorkers
    /\ sccm_packages \in {pl \in PackageLists :
                             Len(pl) <= 2 /\ \A i \in DOMAIN pl : Len(pl[i].files) = 1}
    /\ cliIndices = <<>>
    /\ extract = TRUE
    /\ platform \in Platforms
    /\ tools = {SevenZip, CabExtract, InnoExtract}
    /\ lookup = LookupFound
    /\ listing = ListingOf(catalog)
    /\ FirstRun

NextExtraction ==
    \/ ExtractBegin
    \/ ExtractCheck
    \/ \E o \in Runs(SelfExtractOutputs) : WinFirst(o)
    \/ \E o \in Runs(SelfExtractOutputs) : WinAlt(o)
    \/ \E o \in Runs(OuterOutputs) : UnixOuter(o)
    \/ \E o \in Runs(Stage2Outputs) : UnixCab(o)
    \/ \E o \in Runs(Stage2Outputs) : UnixInno(o)
    \/ \E o \in Runs(Stage2Outputs) : UnixSeven(o)
    \/ ExtractFinish

NextInteractive ==
    \/ LookupPrimary
    \/ SccmStart
    \/ \E line \in PromptLines : Prompt(line)
    \/ PromptInterrupt
    \/ PromptEof
    \/ PromptEscape
    \/ Select
    \/ SccmCheck
    \/ SccmGetSent
    \/ SccmGetFail
    \/ SccmGetOpen
    \/ SccmWriteChunk
    \/ SccmWriteOutBuffer
    \/ SccmWriteDone
    \/ SccmWriteFail
    \/ SccmCleanup
    \/ SccmFinish
    \/ NextExtraction

SpecInteractive == InitInteractive /\ [][NextInteractive]_vars

\* C11: when the line last read at the prompt is "none" (in any case, with
\* blanks around it), the run has ended as cancelled with status 0 and nothing
\* has happened: no output directory, SCCM directory or extraction directory
\* exists, no file was written, no download request was issued, no package
\* was selected and no extraction tool was invoked, whatever lines were
\* rejected before it.
CancelHasNoEffect ==
    (mode = "sccm" /\ linesRead > 0 /\ Lower(Strip(lastInput)) = KeywordNone) =>
        /\ pc = "done"
        /\ exitCode = 0
        /\ dirs = {}
        /\ fs = <<>>
        /\ xdirs = <<>>
        /\ netCalls = 0
        /\ toolLog = <<>>
        /\ selected_packages = <<>>
        /\ downloaded_files = <<>>

\* " None" typed after a rejected line, against two packages
CancelledAfterRejection ==
    /\ pc = "done"
    /\ extract
    /\ Len(sccm_packages) = 2
    /\ rejected >= 1
    /\ lastInput = <<" ", "N", "o", "n", "e">>

(***************************************************************************)
(* Properties of the category filter and of the destination filename.      *)
(***************************************************************************)
\* two labels are the same when case is ignored
SameIgnoringCase(a, b) ==
    /\ Len(a) = Len(b)
    /\ \A i \in 1..Len(a) : LowerChar(a[i]) = LowerChar(b[i])

\* a record the allow-list lets through
Allowed(d) ==
    categories = <<>> \/ \E i \in 1..Len(categories) : SameIgnoringCase(d.category, categories[i])

\* C12: once a bulk run has filtered, its driver list is the fetched list
\* without the records whose category equals no allow-list entry ignoring
\* case, in the fetched order (every record when there is no allow-list); and
\* a run on a valid pool size whose filter kept nothing ends with status 0,
\* zero tasks and a summary of 0/0/0.
CategoryFilter ==
    (mode = "bulk" /\ pc \in {"manifest", "tasks", "transfer", "done", "exit"}) =>
        /\ drivers = SelectSeq(fetched, Allowed)
        /\ (Ended /\ PoolAccepts(max_workers) /\ drivers = <<>>) =>
              /\ exitCode = 0
              /\ tasks = <<>>
              /\ success_count = 0 /\ skip_count = 0 /\ fail_count = 0

\* the allow-list ['a'] has kept a record of category 'A' and dropped one of
\* category 'a/b', and the run has ended
FilterKeptExactMatch ==
    /\ pc = "done"
    /\ categories = << <<"a">> >>
    /\ \E i \in 1..Len(fetched) : fetched[i].category = <<"a", "/", "b">>
    /\ drivers # <<>>
    /\ \A i \in 1..Len(drivers) : drivers[i].category = <<"A">>

\* URLs for the filename derivation: "h/" stands for scheme and host, what
\* follows is any text of slashes, a query mark, a fragment mark, percent
\* escapes and a letter
NameChars == {"a", "/", "?", "#", "%", "2"}

UrlTexts == SeqsUpTo(NameChars, MaxUrlLen)

\* declared display names of a file entry (the 'name' field)
DisplayNames == { <<"x">>, <<"a">> }

DotExe == <<".", "e", "x", "e">>

\* one file entry in one driver record (bulk), or in one package whose URL
\* ends in .exe (specialized-package, selected with --sccm-packages 1)
InitNames ==
    /\ mode \in {"bulk", "sccm"}
    /\ \E text \in UrlTexts, display \in DisplayNames :
          IF mode = "bulk"
          THEN /\ catalog = << [category |-> <<"A">>,
                                files |-> << [url |-> <<"h", "/">> \o text,
                                              name |-> display] >>] >>
               /\ sccm_packages = <<>>
          ELSE /\ catalog = <<>>
               /\ sccm_packages =
                     << [files |-> << [url |-> <<"h", "/">> \o text \o DotExe,
                                       name |-> display] >>] >>
    /\ cliIndices = IF mode = "bulk" THEN <<>> ELSE <<1>>
    /\ categories = <<>>
    /\ max_workers = 1
    /\ extract = FALSE
    /\ platform = "unix"
    /\ tools = {}
    /\ lookup = LookupFound
    /\ listing = ListingOf(catalog)
    /\ FirstRun

\* a run in which every request succeeds
NextNames ==
    \/ LookupPrimary
    \/ Resolve
    \/ SaveManifest
    \/ PrepareTasks
    \/ Submit
    \/ \E t \in TaskIds : TakeCall(t)
    \/ \E t \in TaskIds : StartTask(t)
    \/ \E t \in TaskIds : GetSent(t)
    \/ \E t \in TaskIds : GetOpen(t)
    \/ \E t \in TaskIds : WriteChunk(t)
    \/ \E t \in TaskIds : WriteOutBuffer(t)
    \/ \E t \in TaskIds : WriteBody(t)
    \/ \E t \in TaskIds : WriteDone(t)
    \/ \E t \in TaskIds : Collect(t)
    \/ Summary
    \/ SccmStart
    \/ Select
    \/ SccmCheck
    \/ SccmGetSent
    \/ SccmGetOpen
    \/ SccmWriteChunk
    \/ SccmWriteOutBuffer
    \/ SccmWriteDone
    \/ SccmFinish

SpecNames == InitNames /\ [][NextNames]_vars

\* the path of a URL: the text before its query (from the first '?') and its
\* fragment (from the first '#')
UrlPath(url) == FirstPiece(FirstPiece(url, "#"), "?")

\* the percent-decoded final segment of the URL's path
DecodedLastSegment(url) == Unquote(LastPiece(UrlPath(url), "/"))

\* C13: the file a completed download has written is named by the
\* percent-decoded final path segment of its URL, in the bulk workflow and in
\* the specialized-package workflow.
NameIsDecodedLastSegment ==
    /\ \A t \in DOMAIN tstate :
          tstate[t].pc = "completed" =>
             [dir |-> tasks[t].dir, name |-> DecodedLastSegment(tasks[t].url)] \in DOMAIN fs
    /\ \A k \in 1..Len(outcomes) :
          outcomes[k] = "completed" =>
             [dir |-> SccmDir,
              name |-> DecodedLastSegment(FilesOf(selected_packages)[k].url)] \in DOMAIN fs

(***************************************************************************)
(* The specialized-package workflow with extraction, run twice.            *)
(***************************************************************************)
\* --sccm --sccm-packages 1 on a list of one package (of one or of two
\* files), on either platform, with any set of tools installed
InitExtract ==
    /\ mode = "sccm"
    /\ catalog = <<>>
    /\ categories = <<>>
    /\ max_workers = DefaultWorkers
    /\ sccm_packages \in {pl \in PackageLists : Len(pl) = 1}
    /\ cliIndices = <<1>>
    /\ extract = TRUE
    /\ platform \in Platforms
    /\ tools \in ToolSets
    /\ lookup = LookupFound
    /\ listing = ListingOf(catalog)
    /\ FirstRun

NextExtract ==
    \/ LookupPrimary
    \/ SccmStart
    \/ Select
    \/ SccmCheck
    \/ SccmGetSent
    \/ SccmGetFail
    \/ SccmGetOpen
    \/ SccmWriteChunk
    \/ SccmWriteOutBuffer
    \/ SccmWriteDone
    \/ SccmWriteFail
    \/ SccmCleanup
    \/ SccmFinish
    \/ NextExtraction
    \/ Rerun

SpecExtract == InitExtract /\ [][NextExtract]_vars

\* the tool invocations of this run that were made for the k-th downloaded file
InvocationsFor(k) == {i \in 1..Len(toolLog) : toolLog[i].k = k}

\* C14 as stated: the second run of the workflow on the same output directory
\* invokes no tool.
SecondRunInvokesNoTool ==
    (mode = "sccm" /\ run >= 2) => toolLog = <<>>

\* C14, amended: when the extraction loop reaches an archive whose directory
\* exists and is non-empty, it passes over it without a tool invocation and
\* without touching the directory, and counts it as done; no tool is ever
\* invoked for an archive that was passed over, so a second run invokes no
\* tool for the archives whose directories the first run left non-empty.
ExtractionIdempotence ==
    /\ [][(/\ pc = "extract"
           /\ xstep = "check"
           /\ xcursor <= Len(downloaded_files)
           /\ IsExe(Archive)
           /\ Target \in DOMAIN xdirs
           /\ xdirs[Target] # {}) =>
             (/\ xresults' = Append(xresults, "skipped")
              /\ toolLog' = toolLog
              /\ xdirs' = xdirs
              /\ xcursor' = xcursor + 1
              /\ xstep' = "check")]_vars
    /\ [](\A k \in 1..Len(xresults) :
             xresults[k] = "skipped" =>
                /\ InvocationsFor(k) = {}
                /\ xdirs[ExtractDir(downloaded_files[k])] # {})
    /\ []((run >= 2 /\ pc = "done" /\ \A k \in 1..Len(xresults) : xresults[k] = "skipped")
             => toolLog = <<>>)

\* a second run has passed over the two archives the first run extracted
SecondRunPassedOver ==
    /\ run = 2
    /\ pc = "done"
    /\ xresults = << "skipped", "skipped" >>
    /\ toolLog = <<>>
    /\ netCalls = 0

(***************************************************************************)
(* Runs that the user may interrupt.                                       *)
(***************************************************************************)
\* the answers of the lookup endpoints in these runs: the primary lookup
\* finds the product, or the repeated lookup does
InterruptLookups ==
    { LookupFound, [primary |-> "malformed", page |-> "match", requery |-> "found"] }

\* the catalogs of these runs: at most one driver record, and on one worker
\* also two records with one file entry each
InterruptCatalogs(workers) ==
    {c \in Catalogs :
        \/ Len(c) <= 1
        \/ workers = 1 /\ Len(c) = 2 /\ Len(BuildTasks(c)) = 2}

\* either workflow from the product lookup on: a bulk run on 1 or 2 workers,
\* or --sccm --sccm-packages 1 on one package, without extraction or with it
\* (on Windows, or elsewhere with every tool installed); the product is found
\* at once, and in the plain --sccm run also through the page and the
\* repeated lookup
InitInterrupt ==
    /\ mode \in {"bulk", "sccm"}
    /\ IF mode = "bulk"
       THEN /\ max_workers \in {1, 2}
            /\ catalog \in InterruptCatalogs(max_workers)
            /\ sccm_packages = <<>>
            /\ cliIndices = <<>>
            /\ extract = FALSE
       ELSE /\ catalog = <<>>
            /\ max_workers = DefaultWorkers
            /\ sccm_packages \in {pl \in PackageLists : Len(pl) = 1}
            /\ cliIndices = <<1>>
            /\ extract \in BOOLEAN
    /\ categories = <<>>
    /\ platform \in (IF extract THEN Platforms ELSE {"unix"})
    /\ tools = (IF extract /\ platform = "unix"
                THEN {SevenZip, CabExtract, InnoExtract} ELSE {})
    /\ lookup \in (IF mode = "sccm" /\ ~extract THEN InterruptLookups ELSE {LookupFound})
    /\ listing = ListingOf(catalog)
    /\ pc = "lookup"
    /\ FreshRun

NextInterrupt ==
    \/ LookupPage
    \/ LookupRequery
    \/ NextBulk
    \/ BulkInterrupt
    \/ BulkInterruptExit
    \/ SccmStart
    \/ Select
    \/ SccmCheck
    \/ SccmGetSent
    \/ SccmGetFail
    \/ SccmGetOpen
    \/ SccmWriteChunk
    \/ SccmWriteOutBuffer
    \/ SccmWriteDone
    \/ SccmWriteFail
    \/ SccmCleanup
    \/ SccmFinish
    \/ SccmInterrupt
    \/ NextExtraction
    \/ ExtractInterrupt

SpecInterrupt == InitInterrupt /\ [][NextInterrupt]_vars

\* C15: when the process has ended, every file at a destination path holds
\* its complete content, also after a KeyboardInterrupt that arrived in the
\* middle of a write; and a file a run has skipped as existing is complete.
NoTruncatedFileAfterExit ==
    /\ Ended => \A p \in DOMAIN fs : Complete(p)
    /\ \A k \in 1..Len(outcomes) :
          (outcomes[k] = "skipped" /\ SccmPath(k) \in DOMAIN fs) =>
              Complete(SccmPath(k))
    /\ \A t \in DOMAIN tstate :
          (tstate[t].pc = "skipped" /\ pc = "done" /\ TaskPath(t) \in DOMAIN fs) =>
              Complete(TaskPath(t))

(***************************************************************************)
(* Runs from the product lookup on.                                        *)
(***************************************************************************)
\* either workflow, with any answers of the lookup endpoints, on a catalog of
\* one record (bulk) or a list of one package (--sccm --sccm-packages 1)
InitLookup ==
    /\ mode \in {"bulk", "sccm"}
    /\ lookup \in Lookups
    /\ IF mode = "bulk"
       THEN /\ catalog = << [category |-> <<"A">>, files |-> << [url |-> SomeUrl] >>] >>
            /\ sccm_packages = <<>>
            /\ cliIndices = <<>>
       ELSE /\ catalog = <<>>
            /\ sccm_packages = << [files |-> << [url |-> ExeP] >>] >>
            /\ cliIndices = <<1>>
    /\ categories = <<>>
    /\ max_workers = DefaultWorkers
    /\ extract = FALSE
    /\ platform = "unix"
    /\ tools = {}
    /\ listing = ListingOf(catalog)
    /\ pc = "lookup"
    /\ FreshRun

\* the run up to the start of the transfers
NextLookup ==
    \/ LookupPrimary
    \/ LookupPage
    \/ LookupRequery
    \/ Resolve
    \/ SaveManifest
    \/ PrepareTasks
    \/ Submit
    \/ SccmStart
    \/ Select

SpecLookup == InitLookup /\ [][NextLookup]_vars

\* no strategy finds the product
EveryStrategyFails ==
    /\ lookup.primary # "found"
    /\ lookup.page # "match" \/ lookup.requery # "found"

\* C16: the lookup requests are issued in the order primary, product page,
\* repeated lookup; the product page is requested only after a primary lookup
\* that did not return a product (status other than 200, unparsable body,
\* exception, empty list) and the repeated lookup only with a product id from
\* the page; when no strategy finds the product the run gets no further than
\* the lookup and ends with status 1 having created no directory and no file,
\* and otherwise the lookup does not end the run.
OrderedFallback ==
    /\ \A i \in 1..Len(rlog) : rlog[i] = << "primary", "page", "requery" >>[i]
    /\ Len(rlog) <= 3
    /\ Len(rlog) >= 2 => lookup.primary \in {"non200", "malformed", "exception", "empty"}
    /\ Len(rlog) >= 3 => lookup.page = "match"
    /\ EveryStrategyFails =>
          /\ pc \in {"lookup", "page", "requery", "exit"}
          /\ pc = "exit" => exitCode = 1
          /\ dirs = {} /\ fs = <<>> /\ manifest = <<>> /\ manifestWrites = 0
          /\ netCalls = 0
    /\ ~EveryStrategyFails => pc # "exit"
    /\ pc \notin {"lookup", "page", "requery", "exit"} => ~EveryStrategyFails

\* the primary answer could not be parsed, the page held a product id, the
\* repeated lookup returned an empty list: the run has ended with status 1
NotFoundAfterAllStrategies ==
    /\ pc = "exit"
    /\ exitCode = 1
    /\ rlog = << "primary", "page", "requery" >>
    /\ lookup = [primary |-> "malformed", page |-> "match", requery |-> "empty"]
    /\ dirs = {}

(***************************************************************************)
(* Runs on the driver list get_drivers_list builds from the answers of the *)
(* listing endpoints.                                                      *)
(***************************************************************************)
\* an answer without items: another status than 200, a body json() cannot
\* parse, a transport error
FailedAnswer(status) == [status |-> status, body |-> <<>>, top |-> <<>>]

PrimaryAnswers ==
    { FailedAnswer(st) : st \in ListingStatus \ {"ok200"} } \cup
    [status : {"ok200"},
     body : SeqsUpTo(PrimaryItems, MaxItems),
     top : SeqsUpTo(PrimaryItems, MaxItems)]

SecondaryAnswers ==
    [status : ListingStatus \ {"ok200"}, items : { <<>> }] \cup
    [status : {"ok200"}, items : SeqsUpTo(SecondaryItems, MaxItems)]

Listings == [primary : PrimaryAnswers, secondary : SecondaryAnswers]

\* a bulk run on what get_drivers_list returns for any answers
InitListing ==
    /\ mode = "bulk"
    /\ listing \in Listings
    /\ catalog = GetDriversList(listing)
    /\ categories = <<>>
    /\ max_workers = DefaultWorkers
    /\ sccm_packages = <<>>
    /\ cliIndices = <<>>
    /\ extract = TRUE
    /\ platform = "unix"
    /\ tools = {}
    /\ lookup = LookupFound
    /\ FirstRun

\* the run up to the start of the transfers
NextListing ==
    \/ LookupPrimary
    \/ Resolve
    \/ SaveManifest
    \/ PrepareTasks
    \/ Submit

SpecListing == InitListing /\ [][NextListing]_vars

\* C17: every record of the list get_drivers_list has returned has at least
\* one file entry, and every file entry of it has a non-empty URL; so has
\* every task made from it.
ReturnedRecordsHaveFiles ==
    /\ \A i \in 1..Len(fetched) :
          /\ Len(fetched[i].files) >= 1
          /\ \A j \in 1..Len(fetched[i].files) : fetched[i].files[j].url # <<>>
    /\ \A t \in TaskIds : tasks[t].url # <<>>

\* the primary parse kept one record and raised at its second item, the
\* secondary answer added one record and dropped an item without a URL
PartialPrimaryThenSecondary ==
    /\ pc = "tasks"
    /\ listing.primary.status = "ok200"
    /\ listing.primary.body = << [bad |-> FALSE, category |-> <<"A">>,
                                  files |-> << [url |-> NoUrl], [url |-> SomeUrl] >>],
                                 BadItem >>
    /\ listing.secondary.status = "ok200"
    /\ listing.secondary.items = << [bad |-> FALSE, category |-> <<"A">>, url |-> NoUrl],
                                    [bad |-> FALSE, category |-> <<"A">>, url |-> SomeUrl] >>
    /\ Len(fetched) = 2
    /\ Len(tasks) = 2

(***************************************************************************)
(* Properties of the extraction pipeline.                                  *)
(***************************************************************************)
\* the tool invocation a step has just made
LastInvocation == toolLog'[Len(toolLog')]

\* the attempt a step has just made exited with status 0 or left the output
\* directory non-empty
AttemptWorked == LastInvocation.result = "zero" \/ xdirs'[Target] # {}

\* C18: on Windows the first attempt (/VERYSILENT /DIR=) is a success iff it
\* exited with status 0 or the output directory is non-empty after it;
\* otherwise, however it failed, the attempt with /extract: follows, which is
\* a success under the same condition; failure is reported only after the
\* second attempt.
SelfExtractRetry ==
    [][/\ (pc = "extract" /\ xstep = "first") =>
             IF AttemptWorked
             THEN xresults' = Append(xresults, "ok") /\ xstep' = "check"
             ELSE xresults' = xresults /\ xstep' = "alt"
       /\ (pc = "extract" /\ xstep = "alt") =>
             xresults' = Append(xresults, IF AttemptWorked THEN "ok" ELSE "failed")]_vars

\* C19: a tool invocation that exceeds its time bound fails its stage only:
\* the process goes on, after the first Windows attempt the attempt with
\* /extract: follows, after a stage-2 tool the next available one of
\* cabextract, innoextract, 7z.
TimeoutFailsStageOnly ==
    [][(pc = "extract" /\ toolLog' # toolLog /\ LastInvocation.result = "timeout") =>
          /\ pc' = "extract"
          /\ exitCode' = exitCode
          /\ xstep = "first" => xstep' = "alt"
          /\ xstep = "cab" => xstep' = IF InnoExtract \in tools THEN "inno" ELSE "seven"
          /\ xstep = "inno" => xstep' = "seven"]_vars

\* C20: after an outer unpack that exited with status 0, a stage-2 tool is
\* invoked iff the output directory holds no .inf file and holds '[0]'; with
\* a .inf file in it the extraction is done, whether or not '[0]' is there.
Stage2OnlyWithoutInf ==
    [][(pc = "extract" /\ xstep = "outer" /\ LastInvocation.result = "zero") =>
          /\ xstep' \in {"cab", "inno", "seven"} <=>
                (InfFile \notin xdirs'[Target] /\ Payload \in xdirs'[Target])
          /\ InfFile \in xdirs'[Target] =>
                xresults' = Append(xresults, "ok") /\ xstep' = "check"]_vars

\* the stage-2 tools in the order of the code, and the program each one runs
Stage2Order == << "cab", "inno", "seven" >>

Stage2Program(t) ==
    IF t = "cab" THEN CabExtract ELSE IF t = "inno" THEN InnoExtract ELSE SevenZip

\* the positions in toolLog of the stage-2 invocations made for the k-th file
Stage2For(k) == {i \in InvocationsFor(k) : toolLog[i].tool \in {"cab", "inno", "seven"}}

RankOf(t) == CHOOSE r \in 1..3 : Stage2Order[r] = t

\* C21: outside Windows the stage-2 tools are invoked in the order
\* cabextract, innoextract, 7z: a tool is invoked only when every earlier one
\* is not installed or was invoked before it and ended without exit status 0;
\* after a tool that exited with status 0 no other tool is invoked for the
\* archive and its extraction is reported as done; when stage 2 was entered
\* and no tool exited with status 0 the extraction is reported as failed.
Stage2Ordering ==
    \A k \in 1..Len(downloaded_files) :
       /\ \A i \in Stage2For(k) :
             /\ \A r \in 1..(RankOf(toolLog[i].tool) - 1) :
                   \/ Stage2Program(Stage2Order[r]) \notin tools
                   \/ \E j \in Stage2For(k) :
                         /\ j < i
                         /\ toolLog[j].tool = Stage2Order[r]
                         /\ toolLog[j].result # "zero"
             /\ \A j \in Stage2For(k) : j < i => toolLog[j].result # "zero"
             /\ toolLog[i].result = "zero" =>
                   (Len(xresults) >= k /\ xresults[k] = "ok")
       /\ (/\ Stage2For(k) # {}
           /\ Len(xresults) >= k
           /\ \A i \in Stage2For(k) : toolLog[i].result # "zero") => xresults[k] = "failed"

\* cabextract exited with another status than 0, innoextract with 0: 7z was
\* not run on the payload and the extraction is reported as done
InnoWonAfterCab ==
    /\ Len(xresults) >= 1
    /\ xresults[1] = "ok"
    /\ \E i, j \in Stage2For(1) :
          /\ i < j
          /\ toolLog[i].tool = "cab" /\ toolLog[i].result = "nonzero"
          /\ toolLog[j].tool = "inno" /\ toolLog[j].result = "zero"
    /\ \A i \in Stage2For(1) : toolLog[i].tool # "seven"

\* the program a logged invocation ran; on Windows it is the archive itself
ProgramOf(t) == IF t = "outer" THEN SevenZip ELSE Stage2Program(t)

\* the k-th downloaded file went into the extraction outside Windows
UnixExtraction(k) ==
    /\ platform = "unix"
    /\ k <= Len(xresults)
    /\ xresults[k] \in {"ok", "failed"}

\* stage 1 failed for the k-th file: 7z is not installed, or its outer unpack
\* exited with another status than 0
Stage1Failed(k) ==
    \/ SevenZip \notin tools
    \/ \E i \in InvocationsFor(k) : toolLog[i].tool = "outer" /\ toolLog[i].result = "nonzero"

\* C22: outside Windows, when 7z is not installed or its outer unpack exits
\* with another status than 0, the extraction of the archive is reported as
\* failed, no stage-2 tool is invoked for it and the artifact cleanup is not
\* run on its directory; without 7z no tool at all is invoked; and no program
\* is ever invoked that the availability check did not find.
Stage1Terminal ==
    /\ \A k \in 1..Len(downloaded_files) :
          /\ (platform = "unix" /\ \E i \in InvocationsFor(k) :
                 toolLog[i].tool = "outer" /\ toolLog[i].result = "nonzero")
                => UnixExtraction(k)
          /\ (UnixExtraction(k) /\ Stage1Failed(k)) =>
                /\ xresults[k] = "failed"
                /\ Stage2For(k) = {}
                /\ k \notin xcleaned
                /\ SevenZip \notin tools => InvocationsFor(k) = {}
    /\ platform = "unix" =>
          \A i \in 1..Len(toolLog) : ProgramOf(toolLog[i].tool) \in tools

\* the outer unpack exited with another status than 0 after it had written
\* the payload, and cabextract is installed: the extraction has failed with
\* the payload left in place
OuterFailedWithPayload ==
    /\ platform = "unix"
    /\ CabExtract \in tools
    /\ Len(xresults) >= 1
    /\ xresults[1] = "failed"
    /\ toolLog = << [k |-> 1, tool |-> "outer", result |-> "nonzero"] >>
    /\ Payload \in xdirs[ExtractDir(downloaded_files[1])]

\* a stage-2 tool exited with status 0 for the k-th file
Stage2Won(k) == \E i \in Stage2For(k) : toolLog[i].result = "zero"

\* C23: outside Windows, after an extraction that is reported as done through
\* stage 2 none of '[0]', '[1]', '[2]', 'CERTIFICATE' is in the output
\* directory; the cleanup goes over a directory only after a stage-2 tool
\* exited with status 0, so after a failed stage 2 '[0]' is still there.
ArtifactCleanup ==
    \A k \in 1..Len(xresults) :
       platform = "unix" =>
          /\ (xresults[k] = "ok" /\ Stage2For(k) # {}) =>
                xdirs[ExtractDir(downloaded_files[k])] \cap Artifacts = {}
          /\ k \in xcleaned => Stage2Won(k)
          /\ (xresults[k] = "failed" /\ Stage2For(k) # {}) =>
                Payload \in xdirs[ExtractDir(downloaded_files[k])]

(***************************************************************************)
(* A pool size below 1.                                                    *)
(***************************************************************************)
\* C24: a bulk run configured with fewer than 1 worker ends with a non-zero
\* exit status, starts no download task, and creates neither the output
\* directory nor the manifest nor a category directory.
FatalBeforeAnyEffect ==
    (mode = "bulk" /\ max_workers < 1 /\ run = 1) =>
       /\ Ended => exitCode > 0
       /\ tstate = <<>>
       /\ netCalls = 0
       /\ dirs = {}
       /\ manifestWrites = 0
       /\ fs = <<>>

(***************************************************************************)
(* Failures of one file in the specialized-package workflow.               *)
(***************************************************************************)
RECURSIVE NotFailedUpTo(_)
\* the paths of the first n files of the selection whose download did not fail
NotFailedUpTo(n) ==
    IF n = 0 THEN <<>>
    ELSE IF outcomes[n] = "failed" THEN NotFailedUpTo(n - 1)
    ELSE Append(NotFailedUpTo(n - 1), SccmPath(n))

\* C25: in the specialized-package workflow a failed download does not stop
\* the downloads of the files after it, and downloaded_files holds exactly the
\* files whose download did not fail, so a failed file is not handed to the
\* extraction; the extraction loop reaches every downloaded file whatever the
\* extractions before it returned, and for an archive whose directory is not
\* populated it calls extract_sccm_package: the directory is made and the
\* platform's first program is run, or, outside Windows without 7z, the
\* failure is reported at once.
FailureIsLocal ==
    /\ [](mode = "sccm" =>
            /\ downloaded_files = NotFailedUpTo(Len(outcomes))
            /\ pc \in {"extract", "done"} =>
                  Len(outcomes) = Len(FilesOf(selected_packages))
            /\ (pc = "done" /\ extract) => Len(xresults) = Len(downloaded_files))
    /\ [][(/\ pc = "extract"
           /\ xstep = "check"
           /\ xcursor <= Len(downloaded_files)
           /\ IsExe(Archive)
           /\ ~(Target \in DOMAIN xdirs /\ xdirs[Target] # {})) =>
             /\ Target \in DOMAIN xdirs'
             /\ \/ xstep' = (IF platform = "win32" THEN "first" ELSE "outer")
                \/ /\ platform = "unix"
                   /\ SevenZip \notin tools
                   /\ xresults' = Append(xresults, "failed")
                   /\ xcursor' = xcursor + 1]_vars

\* the extraction of the first archive timed out and the second archive was
\* extracted all the same
SecondExtractedAfterTimeout ==
    /\ pc = "done"
    /\ xresults = << "failed", "ok" >>
    /\ \E i \in InvocationsFor(1) : toolLog[i].result = "timeout"
    /\ InvocationsFor(2) # {}

(***************************************************************************)
(* What the counters of a bulk run say about the files.                    *)
(***************************************************************************)
\* C26: at the end of a bulk run every task that was counted as downloaded or
\* as skipped has a file at its destination path, in every interleaving of
\* the pool, also when tasks share a destination and one of them fails.
CountedFilesExist ==
    (mode = "bulk" /\ pc = "done") =>
        \A t \in counted :
            tstate[t].pc \in {"completed", "skipped"} => Exists(TaskPath(t))

(***************************************************************************)
(* What "already extracted" stands on.                                     *)
(***************************************************************************)
\* C27: the extraction loop passes over an archive as already extracted only
\* if an extraction of that archive has returned True before; an archive
\* whose extraction returned False is therefore extracted again by the next
\* run.
SkippedOnlyAfterSuccess ==
    \A k \in 1..Len(xresults) :
        xresults[k] = "skipped" => ExtractDir(downloaded_files[k]) \in xsucceeded
====
